---- MODULE Spec2Model ----
(***************************************************************************)
(* State-machine model of the YouTube transcript pipeline:                 *)
(*   - the HTTP route POST /api/youtube/transcript                         *)
(*   - the standalone script transcriptToMarkdown                          *)
(*   - the audio download script downloadVideo                             *)
(* Every JavaScript string (URLs, caption text, formatter output,          *)
(* timestamps, error messages) is a sequence of one-character strings, so  *)
(* that matching, joining, trimming and length are computed as in the code.*)
(***************************************************************************)
EXTENDS Integers, Sequences, FiniteSets, TLC

\* ------------------------------------------------------------------------
\* Bounds of the model
\* ------------------------------------------------------------------------
MaxSegs == 2
MaxChunks == 2
MaxSeconds == 4000
MaxResults == 2
MaxPolls == 9

\* ------------------------------------------------------------------------
\* String primitives (JavaScript String / Array methods used by the code)
\* ------------------------------------------------------------------------
Rep(c, n) == [i \in 1..n |-> c]

Whitespace == {" ", "\n", "\t"}

RECURSIVE TrimStart(_)
TrimStart(s) ==
  IF s # <<>> /\ Head(s) \in Whitespace THEN TrimStart(Tail(s)) ELSE s

RECURSIVE TrimEnd(_)
TrimEnd(s) ==
  IF s # <<>> /\ s[Len(s)] \in Whitespace
    THEN TrimEnd(SubSeq(s, 1, Len(s) - 1))
    ELSE s

\* String.prototype.trim
trim(s) == TrimEnd(TrimStart(s))

\* Array.prototype.join
RECURSIVE join(_, _)
join(parts, sep) ==
  IF parts = <<>> THEN <<>>
  ELSE IF Len(parts) = 1 THEN parts[1]
  ELSE parts[1] \o sep \o join(Tail(parts), sep)

Digit == <<"0", "1", "2", "3", "4", "5", "6", "7", "8", "9">>

\* Number.prototype.toString for a non-negative integer
RECURSIVE toString(_)
toString(n) ==
  IF n < 10 THEN <<Digit[n + 1]>>
  ELSE toString(n \div 10) \o <<Digit[(n % 10) + 1]>>

\* String.prototype.padStart(width, c)
padStart(s, width, c) ==
  IF Len(s) >= width THEN s ELSE Rep(c, width - Len(s)) \o s

\* s has p as a substring starting at index i
StartsAt(s, i, p) ==
  /\ i + Len(p) - 1 <= Len(s)
  /\ SubSeq(s, i, i + Len(p) - 1) = p

SetMin(S) == CHOOSE x \in S : \A y \in S : x <= y

\* ------------------------------------------------------------------------
\* The resolvers (extractVideoId, three implementations)
\* ------------------------------------------------------------------------
Lower == {"a","b","c","d","e","f","g","h","i","j","k","l","m",
          "n","o","p","q","r","s","t","u","v","w","x","y","z"}
Upper == {"A","B","C","D","E","F","G","H","I","J","K","L","M",
          "N","O","P","Q","R","S","T","U","V","W","X","Y","Z"}
Digits == {"0","1","2","3","4","5","6","7","8","9"}

\* the character class [a-zA-Z0-9_-]
IdChars == Lower \cup Upper \cup Digits \cup {"_", "-"}

\* variant: the hyphen excluded as well
Delims_withHyphen == {"&", "\n", "?", "#", "-"}
\* the excluded characters of the class [^&\n?#]
Delims == {"&", "\n", "?", "#"}

WatchMarker == <<"y","o","u","t","u","b","e",".","c","o","m","/",
                 "w","a","t","c","h","?","v","=">>
ShortMarker == <<"y","o","u","t","u",".","b","e","/">>
EmbedMarker == <<"y","o","u","t","u","b","e",".","c","o","m","/",
                 "e","m","b","e","d","/">>

\* the value a resolver yields when no pattern matches (null; '' is equally falsy)
NoId == <<>>

\* ^([a-zA-Z0-9_-]{11})$
IsBareId(s) == Len(s) = 11 /\ \A i \in 1..11 : s[i] \in IdChars

\* end (exclusive) of the greedy run [^&\n?#]+ that starts at index i
GreedyEnd(s, i) ==
  CHOOSE j \in (i + 1)..(Len(s) + 1) :
    /\ \A k \in i..(j - 1) : s[k] \notin Delims
    /\ (j = Len(s) + 1 \/ s[j] \in Delims)

\* /(?:m1|m2|...)([^&\n?#]+)/ : leftmost match, alternatives in order,
\* capture group 1 or NoId
LooseCapture(s, markers) ==
  LET CanStart(i, m) ==
        /\ StartsAt(s, i, markers[m])
        /\ i + Len(markers[m]) <= Len(s)
        /\ s[i + Len(markers[m])] \notin Delims
      Starts == {i \in 1..Len(s) : \E m \in 1..Len(markers) : CanStart(i, m)}
  IN IF Starts = {} THEN NoId
     ELSE LET i == SetMin(Starts)
              m == SetMin({k \in 1..Len(markers) : CanStart(i, k)})
              b == i + Len(markers[m])
          IN SubSeq(s, b, GreedyEnd(s, b) - 1)

\* /(?:m1|m2|...)([a-zA-Z0-9_-]{11})/ : leftmost match, capture group 1 or NoId
StrictCapture(s, markers) ==
  LET CanStart(i, m) ==
        /\ StartsAt(s, i, markers[m])
        /\ i + Len(markers[m]) + 10 <= Len(s)
        /\ \A k \in 0..10 : s[i + Len(markers[m]) + k] \in IdChars
      Starts == {i \in 1..Len(s) : \E m \in 1..Len(markers) : CanStart(i, m)}
  IN IF Starts = {} THEN NoId
     ELSE LET i == SetMin(Starts)
              m == SetMin({k \in 1..Len(markers) : CanStart(i, k)})
              b == i + Len(markers[m])
          IN SubSeq(s, b, b + 10)

\* variant: an input that matches no pattern is returned as it is
extractVideoId_anything(url) ==
  LET m1 == LooseCapture(url, <<WatchMarker, ShortMarker, EmbedMarker>>)
  IN IF m1 # NoId THEN m1 ELSE url

\* HTTP route: first pattern that matches wins, else null
extractVideoId(url) ==
  LET m1 == LooseCapture(url, <<WatchMarker, ShortMarker, EmbedMarker>>)
  IN IF m1 # NoId THEN m1
     ELSE IF IsBareId(url) THEN url
     ELSE NoId

\* standalone script: same two patterns in the same order
extractVideoIdScript(url) ==
  LET m1 == LooseCapture(url, <<WatchMarker, ShortMarker, EmbedMarker>>)
  IN IF m1 # NoId THEN m1
     ELSE IF IsBareId(url) THEN url
     ELSE NoId

\* download script: bare id first, then two strict patterns, else it throws
extractVideoIdDownload(input) ==
  IF IsBareId(input) THEN [threw |-> FALSE, id |-> input]
  ELSE LET m1 == StrictCapture(input, <<WatchMarker, ShortMarker>>)
           m2 == StrictCapture(input, <<EmbedMarker>>)
       IN IF m1 # NoId THEN [threw |-> FALSE, id |-> m1]
          ELSE IF m2 # NoId THEN [threw |-> FALSE, id |-> m2]
          ELSE [threw |-> TRUE, id |-> NoId]

\* ------------------------------------------------------------------------
\* formatTimestamp (two identical implementations)
\* A number of seconds is kept exactly, as whole seconds and milliseconds.
\* ------------------------------------------------------------------------
\* ms / 1000
ToSeconds(ms) == [whole |-> ms \div 1000, milli |-> ms % 1000]

\* a + b on seconds
AddSeconds(a, b) ==
  [whole |-> a.whole + b.whole + ((a.milli + b.milli) \div 1000),
   milli |-> (a.milli + b.milli) % 1000]

\* variant: the minutes padded when there are no hours
formatTimestamp_padded(seconds) ==
  LET h == seconds.whole \div 3600
      m == (seconds.whole % 3600) \div 60
      s == seconds.whole % 60
  IN IF h > 0
       THEN toString(h) \o <<":">> \o padStart(toString(m), 2, "0")
                        \o <<":">> \o padStart(toString(s), 2, "0")
       ELSE padStart(toString(m), 2, "0") \o <<":">> \o padStart(toString(s), 2, "0")

\* standalone script
formatTimestamp(seconds) ==
  LET h == seconds.whole \div 3600
      m == (seconds.whole % 3600) \div 60
      s == seconds.whole % 60
  IN IF h > 0
       THEN toString(h) \o <<":">> \o padStart(toString(m), 2, "0")
                        \o <<":">> \o padStart(toString(s), 2, "0")
       ELSE toString(m) \o <<":">> \o padStart(toString(s), 2, "0")

\* HTTP route
formatTimestampRoute(seconds) ==
  LET h == seconds.whole \div 3600
      m == (seconds.whole % 3600) \div 60
      s == seconds.whole % 60
  IN IF h > 0
       THEN toString(h) \o <<":">> \o padStart(toString(m), 2, "0")
                        \o <<":">> \o padStart(toString(s), 2, "0")
       ELSE toString(m) \o <<":">> \o padStart(toString(s), 2, "0")

\* ------------------------------------------------------------------------
\* String literals of the code and of its collaborators
\* ------------------------------------------------------------------------
\* 'YouTube URL is required'
MsgUrlRequired ==
  <<"Y","o","u","T","u","b","e"," ","U","R","L"," ","i","s"," ","r","e","q",
    "u","i","r","e","d">>

\* 'Invalid YouTube URL format'
MsgInvalidUrlFormat ==
  <<"I","n","v","a","l","i","d"," ","Y","o","u","T","u","b","e"," ","U","R",
    "L"," ","f","o","r","m","a","t">>

\* 'GOOGLE_API_KEY not configured. Please add it to .env.local'
MsgApiKeyNotConfigured ==
  <<"G","O","O","G","L","E","_","A","P","I","_","K","E","Y"," ","n","o","t",
    " ","c","o","n","f","i","g","u","r","e","d","."," ","P","l","e","a","s",
    "e"," ","a","d","d"," ","i","t"," ","t","o"," ",".","e","n","v",".","l",
    "o","c","a","l">>

\* 'Transcript is empty'
MsgTranscriptEmpty ==
  <<"T","r","a","n","s","c","r","i","p","t"," ","i","s"," ","e","m","p","t",
    "y">>

\* 'Transcript is too short'
MsgTranscriptTooShort ==
  <<"T","r","a","n","s","c","r","i","p","t"," ","i","s"," ","t","o","o"," ",
    "s","h","o","r","t">>

\* 'Unknown error'
MsgUnknownError ==
  <<"U","n","k","n","o","w","n"," ","e","r","r","o","r">>

\* 'Failed to fetch transcript. The video may not have captions available. Last error: '
MsgFailedToFetchPrefix ==
  <<"F","a","i","l","e","d"," ","t","o"," ","f","e","t","c","h"," ","t","r",
    "a","n","s","c","r","i","p","t","."," ","T","h","e"," ","v","i","d","e",
    "o"," ","m","a","y"," ","n","o","t"," ","h","a","v","e"," ","c","a","p",
    "t","i","o","n","s"," ","a","v","a","i","l","a","b","l","e","."," ","L",
    "a","s","t"," ","e","r","r","o","r",":"," ">>

\* 'Gemini API failed: '
MsgGeminiFailedPrefix ==
  <<"G","e","m","i","n","i"," ","A","P","I"," ","f","a","i","l","e","d",":",
    " ">>

\* 'No candidates in Gemini response'
MsgNoCandidates ==
  <<"N","o"," ","c","a","n","d","i","d","a","t","e","s"," ","i","n"," ","G",
    "e","m","i","n","i"," ","r","e","s","p","o","n","s","e">>

\* 'No text response from Gemini'
MsgNoTextResponse ==
  <<"N","o"," ","t","e","x","t"," ","r","e","s","p","o","n","s","e"," ","f",
    "r","o","m"," ","G","e","m","i","n","i">>

\* 'Received empty or very short markdown from Gemini'
MsgShortMarkdown ==
  <<"R","e","c","e","i","v","e","d"," ","e","m","p","t","y"," ","o","r"," ",
    "v","e","r","y"," ","s","h","o","r","t"," ","m","a","r","k","d","o","w",
    "n"," ","f","r","o","m"," ","G","e","m","i","n","i">>

\* 'Failed to process YouTube video'
MsgFailedToProcess ==
  <<"F","a","i","l","e","d"," ","t","o"," ","p","r","o","c","e","s","s"," ",
    "Y","o","u","T","u","b","e"," ","v","i","d","e","o">>

\* 'token count exceeds'
PhraseTokenCount ==
  <<"t","o","k","e","n"," ","c","o","u","n","t"," ","e","x","c","e","e","d",
    "s">>

\* 'maximum number of tokens'
PhraseMaxTokens ==
  <<"m","a","x","i","m","u","m"," ","n","u","m","b","e","r"," ","o","f"," ",
    "t","o","k","e","n","s">>

\* 'Video is too long'
PhraseTooLong ==
  <<"V","i","d","e","o"," ","i","s"," ","t","o","o"," ","l","o","n","g">>

\* '[YoutubeTranscript] Transcript is disabled on this video'
MsgLibDisabled ==
  <<"[","Y","o","u","t","u","b","e","T","r","a","n","s","c","r","i","p","t",
    "]"," ","T","r","a","n","s","c","r","i","p","t"," ","i","s"," ","d","i",
    "s","a","b","l","e","d"," ","o","n"," ","t","h","i","s"," ","v","i","d",
    "e","o">>

\* 'fetch failed'
MsgFetchFailed ==
  <<"f","e","t","c","h"," ","f","a","i","l","e","d">>

\* 'Body is unusable'
MsgBodyUnusable ==
  <<"B","o","d","y"," ","i","s"," ","u","n","u","s","a","b","l","e">>

\* 'Unexpected end of JSON input'
MsgBadJson ==
  <<"U","n","e","x","p","e","c","t","e","d"," ","e","n","d"," ","o","f"," ",
    "J","S","O","N"," ","i","n","p","u","t">>

\* 'ENOSPC: no space left on device'
MsgNoSpace ==
  <<"E","N","O","S","P","C",":"," ","n","o"," ","s","p","a","c","e"," ","l",
    "e","f","t"," ","o","n"," ","d","e","v","i","c","e">>

\* 'Invalid YouTube URL format: '
MsgInvalidUrlFormatPrefix ==
  <<"I","n","v","a","l","i","d"," ","Y","o","u","T","u","b","e"," ","U","R",
    "L"," ","f","o","r","m","a","t",":"," ">>

\* 'GOOGLE_API_KEY not found in environment variables'
MsgApiKeyNotFound ==
  <<"G","O","O","G","L","E","_","A","P","I","_","K","E","Y"," ","n","o","t",
    " ","f","o","u","n","d"," ","i","n"," ","e","n","v","i","r","o","n","m",
    "e","n","t"," ","v","a","r","i","a","b","l","e","s">>

\* 'Transcript is empty. The video may not have captions available.'
MsgTranscriptEmptyTip ==
  <<"T","r","a","n","s","c","r","i","p","t"," ","i","s"," ","e","m","p","t",
    "y","."," ","T","h","e"," ","v","i","d","e","o"," ","m","a","y"," ","n",
    "o","t"," ","h","a","v","e"," ","c","a","p","t","i","o","n","s"," ","a",
    "v","a","i","l","a","b","l","e",".">>

\* 'Failed to download transcript: '
MsgFailedToDownloadPrefix ==
  <<"F","a","i","l","e","d"," ","t","o"," ","d","o","w","n","l","o","a","d",
    " ","t","r","a","n","s","c","r","i","p","t",":"," ">>

\* '\n   Tip: The video may not have captions enabled.'
MsgDownloadTipSuffix ==
  <<"\n"," "," "," ","T","i","p",":"," ","T","h","e"," ","v","i","d","e",
    "o"," ","m","a","y"," ","n","o","t"," ","h","a","v","e"," ","c","a","p",
    "t","i","o","n","s"," ","e","n","a","b","l","e","d",".">>

\* 'Invalid transcript segment at index '
MsgInvalidSegmentPrefix ==
  <<"I","n","v","a","l","i","d"," ","t","r","a","n","s","c","r","i","p","t",
    " ","s","e","g","m","e","n","t"," ","a","t"," ","i","n","d","e","x"," ">>

\* 'Invalid YouTube URL or video ID: '
MsgInvalidIdPrefix ==
  <<"I","n","v","a","l","i","d"," ","Y","o","u","T","u","b","e"," ","U","R",
    "L"," ","o","r"," ","v","i","d","e","o"," ","I","D",":"," ">>

\* 'Download failed: '
MsgDownloadFailedPrefix ==
  <<"D","o","w","n","l","o","a","d"," ","f","a","i","l","e","d",":"," ">>

\* 'Video is too long for direct processing.' (the message of the code goes on
\* with advice paragraphs, which no code inspects)
MsgVideoTooLong ==
  <<"V","i","d","e","o"," ","i","s"," ","t","o","o"," ","l","o","n","g"," ",
    "f","o","r"," ","d","i","r","e","c","t"," ","p","r","o","c","e","s","s",
    "i","n","g",".">>

\* 'Resource has been exhausted (e.g. check quota).'
MsgUpstreamQuota ==
  <<"R","e","s","o","u","r","c","e"," ","h","a","s"," ","b","e","e","n"," ",
    "e","x","h","a","u","s","t","e","d"," ","(","e",".","g","."," ","c","h",
    "e","c","k"," ","q","u","o","t","a",")",".">>

\* 'The input token count exceeds the limit.'
MsgUpstreamTokenCount ==
  <<"T","h","e"," ","i","n","p","u","t"," ","t","o","k","e","n"," ","c","o",
    "u","n","t"," ","e","x","c","e","e","d","s"," ","t","h","e"," ","l","i",
    "m","i","t",".">>

\* 'Request is over the maximum number of tokens allowed.'
MsgUpstreamMaxTokens ==
  <<"R","e","q","u","e","s","t"," ","i","s"," ","o","v","e","r"," ","t","h",
    "e"," ","m","a","x","i","m","u","m"," ","n","u","m","b","e","r"," ","o",
    "f"," ","t","o","k","e","n","s"," ","a","l","l","o","w","e","d",".">>

\* '{"code":429}'
JsonErrorNoMessage ==
  <<"{","\"","c","o","d","e","\"",":","4","2","9","}">>

\* 'Bad Request'
StatusText400 ==
  <<"B","a","d"," ","R","e","q","u","e","s","t">>

\* 'Too Many Requests'
StatusText429 ==
  <<"T","o","o"," ","M","a","n","y"," ","R","e","q","u","e","s","t","s">>


\* ------------------------------------------------------------------------
\* Inputs of a run
\* ------------------------------------------------------------------------
Id1 == <<"k","C","c","8","F","m","E","b","1","n","Y">>
Id2 == <<"a","_","B","-","9","_","z","-","0","_","Q">>
Id3 == <<"J","8","E","h","7","R","q","g","g","s","U">>
VideoIds == {Id1, Id2, Id3}

Https == <<"h","t","t","p","s",":","/","/">>
Www == <<"w","w","w",".">>

WatchUrl(id) == Https \o Www \o WatchMarker \o id
ShortUrl(id) == Https \o ShortMarker \o id
EmbedUrl(id) == Https \o Www \o EmbedMarker \o id

\* the four valid forms of an identifier
ValidForms(id) == {WatchUrl(id), ShortUrl(id), EmbedUrl(id), id}

NotAUrl == <<"n","o","t"," ","a"," ","u","r","l">>
ShortIdUrl == Https \o ShortMarker \o <<"a","b","c">>

OtherInputs ==
  { <<>>,
    NotAUrl,
    <<"a","b","c">>,
    Id1 \o <<"X">>,
    SubSeq(Id1, 1, 10),
    SubSeq(Id1, 1, 10) \o <<"!">>,
    Https \o <<"v","i","m","e","o",".","c","o","m","/","1","2","3">>,
    Https \o ShortMarker,
    Https \o Www \o WatchMarker,
    ShortIdUrl,
    WatchUrl(Id1 \o <<"X","Y">>),
    WatchUrl(Id1) \o <<"&","t","=","3","0">>,
    WatchUrl(<<"&">> \o Id1),
    ShortUrl(Id1) \o <<"?","t","=","5">>,
    ShortUrl(Id1) \o <<"#","t">>,
    EmbedUrl(Id1) \o <<"/","e","x","t","r","a">>,
    EmbedUrl(SubSeq(Id1, 1, 10)),
    NotAUrl \o <<" ">> \o ShortUrl(Id2),
    Id2 \o <<"\n">> }

\* inputs of the resolver specification
ResolverInputs == (UNION {ValidForms(id) : id \in VideoIds}) \cup OtherInputs

\* inputs of the pipeline specification
Inputs == {WatchUrl(Id1), Id2, <<>>, NotAUrl, Id1 \o <<"X">>, ShortIdUrl}

\* caption segments as returned by YoutubeTranscript.fetchTranscript;
\* has = the fields present on the element
Seg(t, o, d) == [text |-> t, offset |-> o, duration |-> d, has |-> {"offset", "duration"}]

Segments ==
  { Seg(<<"a">>, 0, 1000),
    Seg(<<"b">>, 1000, 1000),
    Seg(Rep("x", 49) \o <<" ">>, 45000, 2000),
    Seg(Rep("x", 50), 3725000, 1500),
    [text |-> Rep("x", 50), offset |-> 0, duration |-> 1000, has |-> {"duration"}],
    [text |-> <<"b">>, offset |-> 3600000, duration |-> 0, has |-> {"offset"}] }

SegLists == UNION {[1..n -> Segments] : n \in 0..MaxSegs}

LibraryErrors == {MsgLibDisabled}

\* what one call of YoutubeTranscript.fetchTranscript can do
FetchOutcomes ==
  {[threw |-> TRUE, message |-> m, segments |-> <<>>] : m \in LibraryErrors}
    \cup {[threw |-> FALSE, message |-> <<>>, segments |-> sl] : sl \in SegLists}

\* String.prototype.includes
includes(s, sub) == \E i \in 1..Len(s) : StartsAt(s, i, sub)

\* UTF-16 code units that are not characters by themselves: the two halves
\* of a surrogate pair, each written as one element of a text
HighSurrogate == "\\uD83D"
LowSurrogate == "\\uDE00"
ReplacementChar == "\\uFFFD"

\* position i of s holds a surrogate that has no partner next to it
Unpaired(s, i) ==
  \/ s[i] = HighSurrogate /\ (i = Len(s) \/ s[i + 1] # LowSurrogate)
  \/ s[i] = LowSurrogate /\ (i = 1 \/ s[i - 1] # HighSurrogate)

\* the 'utf-8' encoding of a string by fs.writeFile, given as the text its
\* bytes decode to: an unpaired surrogate is written as U+FFFD
Utf8Encode(s) ==
  [i \in 1..Len(s) |-> IF Unpaired(s, i) THEN ReplacementChar ELSE s[i]]

\* ------------------------------------------------------------------------
\* The formatter service as seen by the HTTP route (fetch + Response)
\* ------------------------------------------------------------------------
MarkdownTexts ==
  { <<>>,
    <<" ", "\n">>,
    Rep("#", 99),
    Rep("#", 100),
    <<" ">> \o Rep("#", 99) \o <<"\n">>,
    <<"\n">> \o Rep("#", 100) \o <<" ">>,
    Rep("#", 100) \o <<HighSurrogate>> }

\* one element of content.parts
NoTextPart == [hasText |-> FALSE, text |-> <<>>]
TextPart(t) == [hasText |-> TRUE, text |-> t]

\* a completion candidate is its list of parts
Candidates ==
  { <<>>, <<NoTextPart>> }
    \cup {<<TextPart(t)>> : t \in MarkdownTexts}
    \cup { <<NoTextPart, TextPart(Rep("#", 100))>>,
           <<TextPart(Rep("#", 99)), TextPart(Rep("#", 100))>> }

CandidateLists ==
  {<<>>} \cup {<<c>> : c \in Candidates}
    \cup {<<c1, c2>> : c1 \in {<<>>, <<NoTextPart>>}, c2 \in Candidates}

\* a parsed JSON body: data.error and data.candidates
JsonBody(hasErr, hasMsg, msg, hasCands, cands) ==
  [json |-> TRUE, hasError |-> hasErr, errorHasMessage |-> hasMsg,
   errorMessage |-> msg, hasCandidates |-> hasCands, candidates |-> cands]

NotJsonBody == [json |-> FALSE, hasError |-> FALSE, errorHasMessage |-> FALSE,
                errorMessage |-> <<>>, hasCandidates |-> FALSE, candidates |-> <<>>]

ErrorBodies ==
  { NotJsonBody,
    JsonBody(FALSE, FALSE, <<>>, FALSE, <<>>),
    JsonBody(TRUE, FALSE, <<>>, FALSE, <<>>) }
    \cup {JsonBody(TRUE, TRUE, m, FALSE, <<>>) :
            m \in {MsgUpstreamQuota, MsgUpstreamTokenCount, MsgUpstreamMaxTokens}}

OkBodies ==
  { NotJsonBody,
    JsonBody(TRUE, TRUE, MsgUpstreamQuota, FALSE, <<>>),
    JsonBody(TRUE, FALSE, <<>>, FALSE, <<>>),
    JsonBody(FALSE, FALSE, <<>>, FALSE, <<>>) }
    \cup {JsonBody(FALSE, FALSE, <<>>, TRUE, cl) : cl \in CandidateLists}

StatusText(code) == IF code = 400 THEN StatusText400 ELSE StatusText429

\* what the fetch of the generateContent endpoint can do
GeminiHttpResponses ==
  { [rejected |-> TRUE, message |-> MsgFetchFailed, ok |-> FALSE, status |-> 0,
     body |-> NotJsonBody] }
    \cup {[rejected |-> FALSE, message |-> <<>>, ok |-> FALSE, status |-> st, body |-> b] :
            st \in {400, 429}, b \in ErrorBodies}
    \cup {[rejected |-> FALSE, message |-> <<>>, ok |-> TRUE, status |-> 200, body |-> b] :
            b \in OkBodies}

\* results of a file-system call
FsResults == {"ok", "fail"}
\* a failed writeFile has either not touched the file or left it truncated
WriteResults == {"ok", "fail", "failTruncated"}

\* ------------------------------------------------------------------------
\* The speech service as seen by transcribeAudio
\* ------------------------------------------------------------------------
\* 'GOOGLE_CLOUD_PROJECT environment variable not set'
MsgProjectNotSet ==
  <<"G","O","O","G","L","E","_","C","L","O","U","D","_","P","R","O","J","E",
    "C","T"," ","e","n","v","i","r","o","n","m","e","n","t"," ","v","a","r",
    "i","a","b","l","e"," ","n","o","t"," ","s","e","t">>

\* 'Authentication timeout'
MsgAuthTimeout ==
  <<"A","u","t","h","e","n","t","i","c","a","t","i","o","n"," ","t","i","m",
    "e","o","u","t">>

\* 'ENOENT: no such file or directory'
MsgNoSuchFile ==
  <<"E","N","O","E","N","T",":"," ","n","o"," ","s","u","c","h"," ","f","i",
    "l","e"," ","o","r"," ","d","i","r","e","c","t","o","r","y">>

\* 'Failed to create bucket: '
MsgCreateBucketPrefix ==
  <<"F","a","i","l","e","d"," ","t","o"," ","c","r","e","a","t","e"," ","b",
    "u","c","k","e","t",":"," ">>

\* 'Failed to upload to GCS: '
MsgUploadPrefix ==
  <<"F","a","i","l","e","d"," ","t","o"," ","u","p","l","o","a","d"," ","t",
    "o"," ","G","C","S",":"," ">>

\* 'Speech-to-Text API error: '
MsgSpeechErrorPrefix ==
  <<"S","p","e","e","c","h","-","t","o","-","T","e","x","t"," ","A","P","I",
    " ","e","r","r","o","r",":"," ">>

\* 'Could not parse batch response. Saved to debug-api-response.json'
MsgCouldNotParse ==
  <<"C","o","u","l","d"," ","n","o","t"," ","p","a","r","s","e"," ","b","a",
    "t","c","h"," ","r","e","s","p","o","n","s","e","."," ","S","a","v","e",
    "d"," ","t","o"," ","d","e","b","u","g","-","a","p","i","-","r","e","s",
    "p","o","n","s","e",".","j","s","o","n">>

\* 'permission denied'
MsgUpstreamDenied ==
  <<"p","e","r","m","i","s","s","i","o","n"," ","d","e","n","i","e","d">>

\* 'gs://p-speech-transcripts/transcripts/1-audio.mp3'
GcsUri ==
  <<"g","s",":","/","/","p","-","s","p","e","e","c","h","-","t","r","a","n",
    "s","c","r","i","p","t","s","/","t","r","a","n","s","c","r","i","p","t",
    "s","/","1","-","a","u","d","i","o",".","m","p","3">>

\* 'gs://p-speech-transcripts/transcripts/0-audio.mp3'
OtherUri ==
  <<"g","s",":","/","/","p","-","s","p","e","e","c","h","-","t","r","a","n",
    "s","c","r","i","p","t","s","/","t","r","a","n","s","c","r","i","p","t",
    "s","/","0","-","a","u","d","i","o",".","m","p","3">>

\* String.prototype.replace(c, ''): the first occurrence of c is removed
RemoveFirst(s, c) ==
  LET idx == {i \in 1..Len(s) : s[i] = c}
  IN IF idx = {} THEN s
     ELSE SubSeq(s, 1, SetMin(idx) - 1) \o SubSeq(s, SetMin(idx) + 1, Len(s))

IsDigit(c) == \E d \in 1..10 : Digit[d] = c
DigitValue(c) == (CHOOSE d \in 1..10 : Digit[d] = c) - 1

\* the longest prefix of s made of digits
RECURSIVE DigitPrefix(_)
DigitPrefix(s) ==
  IF s # <<>> /\ IsDigit(Head(s)) THEN <<Head(s)>> \o DigitPrefix(Tail(s)) ELSE <<>>

RECURSIVE DigitsValue(_)
DigitsValue(ds) ==
  IF ds = <<>> THEN 0
  ELSE 10 * DigitsValue(SubSeq(ds, 1, Len(ds) - 1)) + DigitValue(ds[Len(ds)])

\* parseFloat of a text that starts with an unsigned decimal number of at
\* most three fraction digits; what follows the number is ignored
parseFloat(s) ==
  LET int == DigitPrefix(s)
      rest == SubSeq(s, Len(int) + 1, Len(s))
      frac == IF rest # <<>> /\ Head(rest) = "." THEN DigitPrefix(Tail(rest)) ELSE <<>>
  IN [whole |-> DigitsValue(int),
      milli |-> DigitsValue(SubSeq(frac \o <<"0", "0", "0">>, 1, 3))]

\* result.resultEndOffset: absent, a string such as "9.250s", or an object
\* with seconds and nanos
NoOffset == [kind |-> "absent", text |-> <<>>, seconds |-> 0, nanos |-> 0]
StringOffset(t) == [kind |-> "string", text |-> t, seconds |-> 0, nanos |-> 0]
ObjectOffset(s, n) == [kind |-> "object", text |-> <<>>, seconds |-> s, nanos |-> n]

\* one element of results: alternatives[0], if any, and the end offset;
\* confidence in percent
RecognizerResult(hasAlt, t, c, off) ==
  [hasAlternative |-> hasAlt, transcript |-> t, confidence |-> c, resultEndOffset |-> off]

RecognizerResults ==
  { RecognizerResult(TRUE, <<"h", "i">>, 90, StringOffset(<<"3", ".", "5", "0", "0", "s">>)),
    RecognizerResult(TRUE, <<"y", "o">>, 80, StringOffset(<<"7", ".", "0", "s">>)),
    RecognizerResult(FALSE, <<>>, 0, StringOffset(<<"6", "4", "7", "s">>)),
    RecognizerResult(TRUE, <<"u", "h">>, 0, NoOffset),
    RecognizerResult(TRUE, <<>>, 70, ObjectOffset(2, 500000000)),
    RecognizerResult(TRUE, <<"o", "k">>, 60, StringOffset(<<"0", "s">>)) }

ResultLists == UNION {[1..n -> RecognizerResults] : n \in 0..MaxResults}

\* the value of endSecs for one result
EndSecs(r) ==
  LET off == r.resultEndOffset
  IN IF off.kind = "string" /\ off.text # <<>>
       THEN parseFloat(RemoveFirst(off.text, "s"))
     ELSE IF off.kind = "object"
       THEN [whole |-> off.seconds + off.nanos \div 1000000000,
             milli |-> (off.nanos % 1000000000) \div 1000000]
     ELSE ToSeconds(0)

\* variant: the start is not taken from the previous segment
SpeechSegment_fromZero(r, lastEndTime) ==
  [text |-> r.transcript, start |-> ToSeconds(0), end |-> EndSecs(r),
   confidence |-> r.confidence]

\* the element pushed to segments
SpeechSegment(r, lastEndTime) ==
  [text |-> r.transcript, start |-> lastEndTime, end |-> EndSecs(r),
   confidence |-> r.confidence]

\* the loop over response_data.results, from the value of lastEndTime
RECURSIVE SegmentsFrom(_, _)
SegmentsFrom(results, lastEndTime) ==
  IF results = <<>> THEN <<>>
  ELSE IF ~Head(results).hasAlternative THEN SegmentsFrom(Tail(results), lastEndTime)
  ELSE <<SpeechSegment(Head(results), lastEndTime)>>
         \o SegmentsFrom(Tail(results), EndSecs(Head(results)))

\* fullTranscript += text + ' ' for every result with an alternative
RECURSIVE FullTranscript(_)
FullTranscript(results) ==
  IF results = <<>> THEN <<>>
  ELSE IF ~Head(results).hasAlternative THEN FullTranscript(Tail(results))
  ELSE Head(results).transcript \o <<" ">> \o FullTranscript(Tail(results))

\* one entry of the results object of a batch response, in the order of
\* Object.values: its key, transcript.results and inlineResult.transcript.results
Entry(key, hasT, t, hasI, i) ==
  [key |-> key, hasTranscript |-> hasT, results |-> t,
   hasInline |-> hasI, inlineResults |-> i]

\* a payload with or without a results object
\* (entries), or with a results list (list) in a recognize response
NoResultsBody == [hasResults |-> FALSE, entries |-> <<>>, list |-> <<>>]
ResultsBody(entries) == [hasResults |-> TRUE, entries |-> entries, list |-> <<>>]
InlineBody(list) == [hasResults |-> TRUE, entries |-> <<>>, list |-> list]

ListA ==
  << RecognizerResult(TRUE, <<"h", "i">>, 90, StringOffset(<<"3", ".", "5", "0", "0", "s">>)),
     RecognizerResult(TRUE, <<"y", "o">>, 80, StringOffset(<<"7", ".", "0", "s">>)) >>
ListB == << RecognizerResult(TRUE, <<"u", "h">>, 0, NoOffset) >>

BatchBodies ==
  { ResultsBody(<<Entry(GcsUri, TRUE, ListA, FALSE, <<>>)>>),
    ResultsBody(<<Entry(OtherUri, TRUE, ListB, FALSE, <<>>),
                  Entry(GcsUri, TRUE, ListA, FALSE, <<>>)>>),
    ResultsBody(<<Entry(OtherUri, TRUE, ListB, FALSE, <<>>)>>),
    ResultsBody(<<Entry(GcsUri, FALSE, <<>>, TRUE, ListA)>>),
    ResultsBody(<<Entry(OtherUri, TRUE, ListB, TRUE, ListA)>>),
    ResultsBody(<<Entry(OtherUri, FALSE, <<>>, FALSE, <<>>),
                  Entry(GcsUri, FALSE, <<>>, TRUE, ListA)>>),
    ResultsBody(<<>>),
    NoResultsBody }

NoMatch == [matched |-> FALSE, shape |-> "none", results |-> <<>>]
Match(shape, results) == [matched |-> TRUE, shape |-> shape, results |-> results]

\* variant: the wrapped transcript of the first entry is preferred
BatchResults_inlineFirst(apiResponse, uri) ==
  LET entries == apiResponse.entries
      keyed == {i \in 1..Len(entries) : entries[i].key = uri}
  IN IF keyed # {} /\ entries[SetMin(keyed)].hasTranscript
       THEN Match("keyed", entries[SetMin(keyed)].results)
     ELSE IF entries # <<>> /\ entries[1].hasInline
       THEN Match("inline", entries[1].inlineResults)
     ELSE IF entries # <<>> /\ entries[1].hasTranscript
       THEN Match("first", entries[1].results)
     ELSE NoMatch

\* the shape of the batch response that yields response_data
BatchResults(apiResponse, uri) ==
  LET entries == apiResponse.entries
      keyed == {i \in 1..Len(entries) : entries[i].key = uri}
  IN IF keyed # {} /\ entries[SetMin(keyed)].hasTranscript
       THEN Match("keyed", entries[SetMin(keyed)].results)
     ELSE IF entries # <<>> /\ entries[1].hasTranscript
       THEN Match("first", entries[1].results)
     ELSE IF entries # <<>> /\ entries[1].hasInline
       THEN Match("inline", entries[1].inlineResults)
     ELSE NoMatch

\* the parsed body of a status fetch: done, response and result may each be
\* missing; own is what the operation object itself holds under results
Operation(done, hasResp, resp, hasRes, res, own) ==
  [rejected |-> FALSE, json |-> TRUE, done |-> done,
   hasResponse |-> hasResp, response |-> resp,
   hasResult |-> hasRes, result |-> res, own |-> own]

FailedFetch(isJson) ==
  [rejected |-> ~isJson, json |-> FALSE, done |-> "absent",
   hasResponse |-> FALSE, response |-> NoResultsBody,
   hasResult |-> FALSE, result |-> NoResultsBody, own |-> NoResultsBody]

\* what one status fetch can bring
PollOutcomes ==
  { FailedFetch(FALSE), FailedFetch(TRUE),
    Operation("false", FALSE, NoResultsBody, FALSE, NoResultsBody, NoResultsBody),
    Operation("absent", FALSE, NoResultsBody, FALSE, NoResultsBody, NoResultsBody),
    Operation("true", FALSE, NoResultsBody, FALSE, NoResultsBody, NoResultsBody),
    Operation("true", FALSE, NoResultsBody, TRUE,
              ResultsBody(<<Entry(GcsUri, TRUE, ListA, FALSE, <<>>)>>), NoResultsBody),
    Operation("true", FALSE, NoResultsBody, FALSE, NoResultsBody,
              ResultsBody(<<Entry(GcsUri, TRUE, ListA, FALSE, <<>>)>>)) }
    \cup {Operation("true", TRUE, b, FALSE, NoResultsBody, NoResultsBody) : b \in BatchBodies}

\* operation.response, else operation.result, else the operation itself
SelectApiResponse(operation) ==
  IF operation.hasResponse THEN operation.response
  ELSE IF operation.hasResult THEN operation.result
  ELSE operation.own

BytesPerMB == 1024 * 1024
InlineLimitMB == 10

\* sizes of the audio file in bytes, around the limit
FileSizes == {0, InlineLimitMB * BytesPerMB - 1, InlineLimitMB * BytesPerMB,
              InlineLimitMB * BytesPerMB + 1, 2 * InlineLimitMB * BytesPerMB}

\* variant: the limit itself goes to object storage
UseObjectStorage_atLimit(size) == size >= InlineLimitMB * BytesPerMB

\* fileSizeMB > 10 with fileSizeMB = stats.size / (1024 * 1024); the division
\* by a power of two is exact, so the test is one on the bytes
UseObjectStorage(size) == size > InlineLimitMB * BytesPerMB

\* audioFile.replace(/\.(mp3|wav|m4a)$/, '-transcript.json') on the file name
OutputFileName(name) ==
  IF name = "audio.mp3" THEN "audio-transcript.json"
  ELSE IF name = "audio.wav" THEN "audio-transcript.json"
  ELSE IF name = "audio.m4a" THEN "audio-transcript.json"
  ELSE name

\* ------------------------------------------------------------------------
\* State
\* ------------------------------------------------------------------------
VARIABLES
  prog,               \* which program the current run executes
  pc,                 \* position of the run
  url,                \* input of the run
  requestJson,        \* route: request.json() yielded an object
  videoId,            \* result of the resolver
  langIdx,            \* route: index of the next language candidate
  transcriptText,     \* route: let transcriptText
  lastError,          \* route: let lastError
  rawTranscript,      \* script: let rawTranscript; route: const rawTranscript
  transcriptSegments, \* script: const transcriptSegments
  totalDuration,      \* script: const totalDuration
  fullTranscriptText, \* script: const fullTranscriptText
  markdownContent,    \* route and script: const markdownContent
  outputPath,         \* script: optional second argument
  net,                \* outbound network calls of the run, in order
  fsOps,              \* file-system calls of the run, in order
  files,              \* the file system: set of [path, content]
  outcome,            \* how the run ended
  consoleError,       \* download: the handler installed as console.error
  downloadedBytes,    \* download: let downloadedBytes
  audioFile,          \* transcribe: process.argv[2]
  fileSize,           \* transcribe: stats.size
  audioUri,           \* transcribe: let audioUri (<<>>: undefined)
  audioContent,       \* transcribe: let audioContent has been read
  pollCount,          \* transcribe: let pollCount
  done,               \* transcribe: let done
  apiResponse,        \* transcribe: let apiResponse
  response_data,      \* transcribe: response_data.results
  segments,           \* transcribe: const segments
  fullTranscript,     \* transcribe: fullTranscript.trim()
  events,             \* transcribe: waits, heartbeats and status fetches, in order
  youtubeUrl,         \* page: useState('') of the input
  isProcessing,       \* page: useState(false)
  status,             \* page: useState('')
  error,              \* page: useState('')
  result,             \* page: useState(null)
  requests            \* page: the calls of handleSubmit that have not ended

routeLocals == <<langIdx, transcriptText, lastError>>
scriptLocals == <<rawTranscript, transcriptSegments, totalDuration,
                  fullTranscriptText, outputPath>>
downloadLocals == <<consoleError, downloadedBytes>>
pageLocals == <<youtubeUrl, isProcessing, status, error, result, requests>>
transcribeLocals == <<audioFile, fileSize, audioUri, audioContent, pollCount, done,
                      apiResponse, response_data, segments, fullTranscript, events>>
vars == <<prog, pc, url, requestJson, videoId, langIdx, transcriptText, lastError,
          rawTranscript, transcriptSegments, totalDuration, fullTranscriptText,
          markdownContent, outputPath, net, fsOps, files, outcome,
          consoleError, downloadedBytes, audioFile, fileSize, audioUri, audioContent,
          pollCount, done, apiResponse, response_data, segments, fullTranscript, events,
          youtubeUrl, isProcessing, status, error, result, requests>>

NullError == [isNull |-> TRUE, message |-> <<>>]
Error(msg) == [isNull |-> FALSE, message |-> msg]

NoOutcome == [kind |-> "none", status |-> 0, success |-> FALSE, message |-> <<>>]
\* NextResponse.json({ error }, { status })
ErrorResponse(st, msg) ==
  [kind |-> "response", status |-> st, success |-> FALSE, message |-> msg]
\* NextResponse.json({ success: true, ... })
SuccessResponse == [kind |-> "response", status |-> 200, success |-> TRUE, message |-> <<>>]
\* the promise of a script's main function
Rejected(msg) == [kind |-> "rejected", status |-> 0, success |-> FALSE, message |-> msg]
Resolved == [kind |-> "resolved", status |-> 0, success |-> TRUE, message |-> <<>>]

NoPath == [root |-> "none", videoId |-> <<>>, name |-> ""]
\* path.join(process.cwd(), 'youtube', videoId, name)
YoutubePath(id, name) == [root |-> "cwd/youtube", videoId |-> id, name |-> name]
CustomPath == [root |-> "custom", videoId |-> <<>>, name |-> "out.md"]

\* the file system before the run: empty, or holding the transcript of an
\* earlier run
InitialFiles ==
  { {},
    {[path |-> YoutubePath(Id2, "transcript.md"), content |-> Rep("#", 120)]} }

\* variant: a file that exists is left as it is
WriteFile_keepExisting(fs, path, content) ==
  IF \E f \in fs : f.path = path THEN fs
  ELSE fs \cup {[path |-> path, content |-> content]}

\* fs.writeFile(path, content): create or overwrite
WriteFile(fs, path, content) ==
  {f \in fs : f.path # path} \cup {[path |-> path, content |-> content]}

\* an outbound call: the service, and what the claims need of its arguments
NetCall(service, lang, header, text, marker) ==
  [service |-> service, lang |-> lang, header |-> header, text |-> text,
   marker |-> marker]
\* YoutubeTranscript.fetchTranscript(videoId, { lang })
CaptionCall(lang) == NetCall("captions", lang, <<>>, <<>>, <<>>)
\* the generateContent request; header = the formatted total duration, if any
FormatterCall(header, text, marker) == NetCall("formatter", "", header, text, marker)

\* the locals of transcribeAudio before it runs
\* the result state before any response: null
NoResult == [isNull |-> TRUE, videoId |-> <<>>, outputPath |-> <<>>]

\* the page as first rendered
PageIdle ==
  /\ youtubeUrl = <<>>
  /\ isProcessing = FALSE
  /\ status = <<>>
  /\ error = <<>>
  /\ result = NoResult
  /\ requests = <<>>

TranscribeIdle ==
  /\ audioFile = NoPath
  /\ fileSize = 0
  /\ audioUri = <<>>
  /\ audioContent = FALSE
  /\ pollCount = 0
  /\ done = FALSE
  /\ apiResponse = NoResultsBody
  /\ response_data = <<>>
  /\ segments = <<>>
  /\ fullTranscript = <<>>
  /\ events = <<>>

Init ==
  /\ prog = "none"
  /\ pc = "idle"
  /\ url = <<>>
  /\ requestJson = TRUE
  /\ videoId = NoId
  /\ langIdx = 1
  /\ transcriptText = <<>>
  /\ lastError = NullError
  /\ rawTranscript = <<>>
  /\ transcriptSegments = <<>>
  /\ totalDuration = ToSeconds(0)
  /\ fullTranscriptText = <<>>
  /\ markdownContent = <<>>
  /\ outputPath = NoPath
  /\ net = <<>>
  /\ fsOps = <<>>
  /\ files \in InitialFiles
  /\ outcome = NoOutcome
  /\ consoleError = "original"
  /\ downloadedBytes = 0
  /\ TranscribeIdle
  /\ PageIdle

\* one invocation per behaviour; the file system it finds is part of Init
CanStart == pc = "idle"

\* the program and its input; the locals have their declared initial values
FreshRun(p, u) ==
  /\ prog' = p
  /\ url' = u
  /\ langIdx' = 1
  /\ transcriptText' = <<>>
  /\ lastError' = NullError
  /\ rawTranscript' = <<>>
  /\ transcriptSegments' = <<>>
  /\ totalDuration' = ToSeconds(0)
  /\ fullTranscriptText' = <<>>
  /\ markdownContent' = <<>>
  /\ net' = <<>>
  /\ fsOps' = <<>>
  /\ downloadedBytes' = 0
  /\ UNCHANGED <<files, transcribeLocals, pageLocals>>

\* ------------------------------------------------------------------------
\* HTTP route: POST
\* ------------------------------------------------------------------------
\* variant: the two regional candidates swapped
languageCodes_swapped == <<"en", "en-GB", "en-US", "default">>
languageCodes == <<"en", "en-US", "en-GB", "default">>

\* variant: the acceptance threshold one higher
MinTranscriptLength_51 == 50 + 1
MinTranscriptLength == 50
\* variant: the length threshold one lower
MinMarkdownLength_99 == 100 - 1
MinMarkdownLength == 100
PromptLimit == 200000

\* variant: the catch-all answers with the validation status
RouteCatch_badRequest(msg) ==
  /\ outcome' = ErrorResponse(400, IF msg = <<>> THEN MsgFailedToProcess ELSE msg)
  /\ pc' = "done"

\* the catch-all of POST: status 500 with error.message or the fallback text
RouteCatch(msg) ==
  /\ outcome' = ErrorResponse(500, IF msg = <<>> THEN MsgFailedToProcess ELSE msg)
  /\ pc' = "done"

\* request body parsed; url checked and resolved; API key looked up
RoutePost(bodyOk, u, apiKey) ==
  /\ CanStart
  /\ FreshRun("route", IF bodyOk THEN u ELSE <<>>)
  /\ requestJson' = bodyOk
  /\ outputPath' = NoPath
  /\ UNCHANGED consoleError
  /\ IF ~bodyOk
       THEN /\ videoId' = NoId
            /\ RouteCatch(MsgBadJson)
       ELSE IF u = <<>>
         THEN /\ videoId' = NoId
              /\ outcome' = ErrorResponse(400, MsgUrlRequired)
              /\ pc' = "done"
         ELSE /\ videoId' = extractVideoId(u)
              /\ IF videoId' = NoId
                   THEN /\ outcome' = ErrorResponse(400, MsgInvalidUrlFormat)
                        /\ pc' = "done"
                   ELSE IF ~apiKey
                     THEN /\ outcome' = ErrorResponse(500, MsgApiKeyNotConfigured)
                          /\ pc' = "done"
                     ELSE /\ outcome' = NoOutcome
                          /\ pc' = "languages"

\* the check that follows the language loop
\* variant: only the empty text is unusable after the loop
TranscriptUnusable_emptyOnly(text) == text = <<>>

TranscriptUnusable(text) == text = <<>> \/ Len(trim(text)) < MinTranscriptLength

\* variant: the failure does not carry the remembered error
RouteAfterLoop_unknown(text, err) ==
  IF TranscriptUnusable(text)
    THEN RouteCatch(MsgFailedToFetchPrefix \o MsgUnknownError)
    ELSE /\ pc' = "format"
         /\ outcome' = NoOutcome

\* what follows the loop: either the failure is thrown or formatting starts
RouteAfterLoop(text, err) ==
  IF TranscriptUnusable(text)
    THEN RouteCatch(MsgFailedToFetchPrefix \o
                    (IF err.isNull \/ err.message = <<>> THEN MsgUnknownError
                                                       ELSE err.message))
    ELSE /\ pc' = "format"
         /\ outcome' = NoOutcome

\* one iteration of the loop over languageCodes, with the result r of its fetch
RouteTryLanguage(r) ==
  /\ prog = "route"
  /\ pc = "languages"
  /\ net' = Append(net, CaptionCall(languageCodes[langIdx]))
  /\ LET joined == join([i \in 1..Len(r.segments) |-> r.segments[i].text], <<" ">>)
         failure ==
           IF r.threw THEN r.message
           ELSE IF Len(r.segments) = 0 THEN MsgTranscriptEmpty
           ELSE IF TranscriptUnusable(joined) THEN MsgTranscriptTooShort
           ELSE <<>>
         assigned == ~r.threw /\ Len(r.segments) > 0
     IN /\ rawTranscript' = IF r.threw THEN <<>> ELSE r.segments
        /\ transcriptText' = IF assigned THEN joined ELSE transcriptText
        /\ IF failure = <<>>
             THEN \* break
                  /\ UNCHANGED <<langIdx, lastError>>
                  /\ RouteAfterLoop(transcriptText', lastError')
             ELSE \* catch: remember the error, continue
                  /\ lastError' = Error(failure)
                  /\ langIdx' = langIdx + 1
                  /\ IF langIdx' > Len(languageCodes)
                       THEN RouteAfterLoop(transcriptText', lastError')
                       ELSE UNCHANGED <<pc, outcome>>
  /\ UNCHANGED <<pageLocals, prog, url, requestJson, videoId, transcriptSegments, totalDuration,
                 fullTranscriptText, outputPath, markdownContent, fsOps, files,
                 downloadLocals, transcribeLocals>>

\* A text is a sequence of UTF-16 code units, each a one-character string.
\* In the texts around the prompt limit one element, FillerBlock, stands for
\* FillerWidth consecutive code units "x", so that a state holds a text of
\* 200,000 code units in a few hundred elements.
FillerBlock == "<x...x>"
FillerWidth == PromptLimit - 100

\* String.prototype.length
length(text) ==
  Len(text) + (FillerWidth - 1) * Cardinality({i \in 1..Len(text) : text[i] = FillerBlock})

\* String.prototype.substring(0, n); a block is never cut in two: the texts
\* of the model have their block before position n
substring0(text, n) ==
  IF length(text) <= n THEN text
  ELSE LET fits == {k \in 0..Len(text) : length(SubSeq(text, 1, k)) <= n}
       IN SubSeq(text, 1, Cardinality(fits) - 1)

\* the text of the transcript inside formattingPrompt
PromptText(text) == substring0(text, PromptLimit)

\* '\n[... transcript continues ...]'
ContinuationMarker ==
  <<"\n","[",".",".","."," ","t","r","a","n","s","c","r","i","p","t"," ",
    "c","o","n","t","i","n","u","e","s"," ",".",".",".","]">>

\* variant: a text of exactly the limit gets the marker too
PromptMarker_atLimit(text) ==
  IF length(text) >= PromptLimit THEN ContinuationMarker ELSE <<>>

\* what follows the transcript inside formattingPrompt
PromptMarker(text) == IF length(text) > PromptLimit THEN ContinuationMarker ELSE <<>>

\* the error thrown for a response that is not ok
GeminiFailure(resp) ==
  LET b == resp.body
      statusLine == MsgGeminiFailedPrefix \o toString(resp.status) \o <<" ">>
                      \o StatusText(resp.status)
      hasMessage == b.json /\ b.hasError /\ b.errorHasMessage /\ b.errorMessage # <<>>
      \* what the try block throws (<<>>: nothing)
      thrownInTry ==
        IF ~b.json THEN MsgBadJson
        ELSE IF hasMessage /\ (includes(b.errorMessage, PhraseTokenCount)
                                 \/ includes(b.errorMessage, PhraseMaxTokens))
          THEN MsgVideoTooLong
        ELSE <<>>
      errorMessage ==
        IF hasMessage THEN b.errorMessage
        ELSE IF b.hasError THEN JsonErrorNoMessage
        ELSE statusLine
  IN IF thrownInTry = <<>> THEN errorMessage
     ELSE IF includes(thrownInTry, PhraseTooLong) THEN thrownInTry
     ELSE \* response.text() on the body that response.json() has used up
          MsgBodyUnusable

\* the first part of the first candidate that carries text
FirstTextPart(cands) ==
  LET parts == cands[1]
      idx == {i \in 1..Len(parts) : parts[i].hasText}
  IN IF idx = {} THEN NoTextPart ELSE parts[SetMin(idx)]

\* the formatter request with its response resp, up to the length check
RouteFormat(resp) ==
  /\ prog = "route"
  /\ pc = "format"
  /\ net' = Append(net, FormatterCall(<<>>, PromptText(transcriptText),
                                      PromptMarker(transcriptText)))
  /\ LET b == resp.body
     IN IF resp.rejected THEN RouteCatch(resp.message) /\ UNCHANGED markdownContent
        ELSE IF ~resp.ok THEN RouteCatch(GeminiFailure(resp)) /\ UNCHANGED markdownContent
        ELSE IF ~b.json THEN RouteCatch(MsgBadJson) /\ UNCHANGED markdownContent
        ELSE IF b.hasError
          THEN /\ RouteCatch(IF b.errorHasMessage /\ b.errorMessage # <<>>
                               THEN b.errorMessage ELSE JsonErrorNoMessage)
               /\ UNCHANGED markdownContent
        ELSE IF ~b.hasCandidates \/ Len(b.candidates) = 0
          THEN RouteCatch(MsgNoCandidates) /\ UNCHANGED markdownContent
        ELSE LET textPart == FirstTextPart(b.candidates)
             IN IF ~textPart.hasText \/ textPart.text = <<>>
                  THEN RouteCatch(MsgNoTextResponse) /\ UNCHANGED markdownContent
                  ELSE /\ markdownContent' = trim(textPart.text)
                       /\ IF markdownContent' = <<>>
                             \/ Len(markdownContent') < MinMarkdownLength
                            THEN RouteCatch(MsgShortMarkdown)
                            ELSE /\ pc' = "save"
                                 /\ UNCHANGED outcome
  /\ UNCHANGED <<pageLocals, prog, url, requestJson, videoId, routeLocals, scriptLocals, fsOps, files,
                 downloadLocals, transcribeLocals>>

FsOp(op, path, r) == [op |-> op, path |-> path, result |-> r]

\* mkdir, writeFile and the success response
RouteSave(mk, wr) ==
  /\ prog = "route"
  /\ pc = "save"
  /\ LET outputDir == YoutubePath(videoId, "")
         target == YoutubePath(videoId, "transcript.md")
     IN IF mk # "ok"
          THEN /\ fsOps' = Append(fsOps, FsOp("mkdir", outputDir, mk))
               /\ UNCHANGED files
               /\ RouteCatch(MsgNoSpace)
          ELSE /\ fsOps' = fsOps \o <<FsOp("mkdir", outputDir, mk),
                                      FsOp("writeFile", target, wr)>>
               /\ files' = IF wr = "ok" THEN WriteFile(files, target, Utf8Encode(markdownContent))
                           ELSE IF wr = "failTruncated" THEN WriteFile(files, target, <<>>)
                           ELSE files
               /\ IF wr = "ok"
                    THEN outcome' = SuccessResponse /\ pc' = "done"
                    ELSE RouteCatch(MsgNoSpace)
  /\ UNCHANGED <<pageLocals, prog, url, requestJson, videoId, routeLocals, scriptLocals,
                 markdownContent, net, downloadLocals, transcribeLocals>>

\* ------------------------------------------------------------------------
\* Standalone script: transcriptToMarkdown
\* ------------------------------------------------------------------------
\* what ai.models.generateContent can do: throw, or a response with .text
SdkResponses ==
  { [threw |-> TRUE, message |-> MsgFetchFailed, hasText |-> FALSE, text |-> <<>>],
    [threw |-> FALSE, message |-> <<>>, hasText |-> FALSE, text |-> <<>>] }
    \cup {[threw |-> FALSE, message |-> <<>>, hasText |-> TRUE, text |-> t] :
            t \in MarkdownTexts}

ScriptThrow(msg) ==
  /\ outcome' = Rejected(msg)
  /\ pc' = "done"

\* identifier resolved and API key looked up
ScriptStart(u, out, apiKey) ==
  /\ CanStart
  /\ FreshRun("script", u)
  /\ outputPath' = out
  /\ UNCHANGED <<consoleError, requestJson>>
  /\ videoId' = extractVideoIdScript(u)
  /\ IF videoId' = NoId THEN ScriptThrow(MsgInvalidUrlFormatPrefix \o u)
     ELSE IF ~apiKey THEN ScriptThrow(MsgApiKeyNotFound)
     ELSE /\ outcome' = NoOutcome
          /\ pc' = "fetch"

\* Step 1: the single fetchTranscript call of the script, with its result r
ScriptFetch(r) ==
  /\ prog = "script"
  /\ pc = "fetch"
  /\ net' = Append(net, CaptionCall("default"))
  /\ IF r.threw
       THEN /\ ScriptThrow(MsgFailedToDownloadPrefix \o r.message \o MsgDownloadTipSuffix)
            /\ UNCHANGED rawTranscript
       ELSE IF Len(r.segments) = 0
         THEN /\ ScriptThrow(MsgFailedToDownloadPrefix \o MsgTranscriptEmptyTip
                               \o MsgDownloadTipSuffix)
              /\ rawTranscript' = r.segments
         ELSE /\ rawTranscript' = r.segments
              /\ pc' = "normalize"
              /\ UNCHANGED outcome
  /\ UNCHANGED <<pageLocals, prog, url, requestJson, videoId, routeLocals, transcriptSegments, totalDuration,
                 fullTranscriptText, outputPath, markdownContent, fsOps, files,
                 downloadLocals, transcribeLocals>>

\* JSON.stringify of a caption segment
Stringify(item) ==
  <<"{", "\"", "t", "e", "x", "t", "\"", ":", "\"">> \o item.text \o <<"\"">>
    \o (IF "offset" \in item.has
          THEN <<",", "\"", "o", "f", "f", "s", "e", "t", "\"", ":">> \o toString(item.offset)
          ELSE <<>>)
    \o (IF "duration" \in item.has
          THEN <<",", "\"", "d", "u", "r", "a", "t", "i", "o", "n", "\"", ":">>
                 \o toString(item.duration)
          ELSE <<>>)
    \o <<"}">>

\* variant: only the offset is looked at
SegmentInvalid_offsetOnly(item) == "offset" \notin item.has

\* typeof item.offset === 'undefined' || typeof item.duration === 'undefined'
SegmentInvalid(item) == "offset" \notin item.has \/ "duration" \notin item.has

\* the element the map callback returns
NormalizeSegment(item) ==
  [text |-> item.text, timestamp |-> ToSeconds(item.offset),
   duration |-> ToSeconds(item.duration)]

\* variant: the largest end over all elements
TotalDuration_max(segs) ==
  LET End(i) == AddSeconds(segs[i].timestamp, segs[i].duration)
      Ms(x) == 1000 * x.whole + x.milli
      best == CHOOSE i \in 1..Len(segs) : \A j \in 1..Len(segs) : Ms(End(j)) <= Ms(End(i))
  IN End(best)

\* timestamp + duration of the last element
TotalDuration(segs) == AddSeconds(segs[Len(segs)].timestamp, segs[Len(segs)].duration)

\* `[${formatTimestamp(seg.timestamp)}] ${seg.text}`
TranscriptLine(seg) == <<"[">> \o formatTimestamp(seg.timestamp) \o <<"]", " ">> \o seg.text

\* Step 2: validation, conversion to seconds, total duration, timestamped text
ScriptNormalize ==
  /\ prog = "script"
  /\ pc = "normalize"
  /\ LET bad == {i \in 1..Len(rawTranscript) : SegmentInvalid(rawTranscript[i])}
     IN IF bad # {}
          THEN /\ ScriptThrow(MsgInvalidSegmentPrefix \o toString(SetMin(bad) - 1)
                                \o <<":", " ">> \o Stringify(rawTranscript[SetMin(bad)]))
               /\ UNCHANGED <<transcriptSegments, totalDuration, fullTranscriptText>>
          ELSE /\ transcriptSegments' =
                    [i \in 1..Len(rawTranscript) |-> NormalizeSegment(rawTranscript[i])]
               /\ totalDuration' = TotalDuration(transcriptSegments')
               /\ fullTranscriptText' =
                    join([i \in 1..Len(rawTranscript) |->
                            TranscriptLine(transcriptSegments'[i])], <<"\n">>)
               /\ pc' = "format"
               /\ UNCHANGED outcome
  /\ UNCHANGED <<pageLocals, prog, url, requestJson, videoId, routeLocals, rawTranscript, outputPath,
                 markdownContent, net, fsOps, files, downloadLocals, transcribeLocals>>

\* Step 3: the generateContent call with its result resp, up to the length check
ScriptFormat(resp) ==
  /\ prog = "script"
  /\ pc = "format"
  /\ net' = Append(net, FormatterCall(formatTimestamp(totalDuration),
                                      PromptText(fullTranscriptText),
                                      PromptMarker(fullTranscriptText)))
  /\ IF resp.threw THEN ScriptThrow(resp.message) /\ UNCHANGED markdownContent
     ELSE IF ~resp.hasText \/ resp.text = <<>>
       THEN ScriptThrow(MsgNoTextResponse) /\ UNCHANGED markdownContent
     ELSE /\ markdownContent' = trim(resp.text)
          /\ IF markdownContent' = <<>> \/ Len(markdownContent') < MinMarkdownLength
               THEN ScriptThrow(MsgShortMarkdown)
               ELSE /\ pc' = "save"
                    /\ UNCHANGED outcome
  /\ UNCHANGED <<pageLocals, prog, url, requestJson, videoId, routeLocals, scriptLocals, fsOps, files,
                 downloadLocals, transcribeLocals>>

\* Step 4: mkdir of the directory and writeFile of the markdown
ScriptSave(mk, wr) ==
  /\ prog = "script"
  /\ pc = "save"
  /\ LET finalOutputPath == IF outputPath # NoPath THEN outputPath
                            ELSE YoutubePath(videoId, "transcript.md")
         outputDir == [finalOutputPath EXCEPT !.name = ""]
     IN IF mk # "ok"
          THEN /\ fsOps' = Append(fsOps, FsOp("mkdir", outputDir, mk))
               /\ UNCHANGED files
               /\ ScriptThrow(MsgNoSpace)
          ELSE /\ fsOps' = fsOps \o <<FsOp("mkdir", outputDir, mk),
                                      FsOp("writeFile", finalOutputPath, wr)>>
               /\ files' = IF wr = "ok"
                             THEN WriteFile(files, finalOutputPath, Utf8Encode(markdownContent))
                           ELSE IF wr = "failTruncated"
                             THEN WriteFile(files, finalOutputPath, <<>>)
                           ELSE files
               /\ IF wr = "ok"
                    THEN outcome' = Resolved /\ pc' = "done"
                    ELSE ScriptThrow(MsgNoSpace)
  /\ UNCHANGED <<pageLocals, prog, url, requestJson, videoId, routeLocals, scriptLocals,
                 markdownContent, net, downloadLocals, transcribeLocals>>

\* ------------------------------------------------------------------------
\* Download script: downloadVideo
\* ------------------------------------------------------------------------
ChunkLength == 3

\* what reader.read() can do: end of stream, a chunk, no value, or a failure
ReadResults == {"done", "chunk", "empty", "throw"}

\* variant: neither block restores console.error
DownloadCatch_noRestore(msg) ==
  /\ consoleError' = consoleError
  /\ outcome' = Rejected(MsgDownloadFailedPrefix \o msg)
  /\ pc' = "done"

\* the catch block and the finally block
DownloadCatch(msg) ==
  /\ consoleError' = "original"
  /\ outcome' = Rejected(MsgDownloadFailedPrefix \o msg)
  /\ pc' = "done"

\* extractVideoId, then the override of console.error
DownloadStart(input) ==
  /\ CanStart
  /\ FreshRun("download", input)
  /\ outputPath' = NoPath
  /\ UNCHANGED requestJson
  /\ LET r == extractVideoIdDownload(input)
     IN /\ videoId' = r.id
        /\ IF r.threw
             THEN /\ outcome' = Rejected(MsgInvalidIdPrefix \o input)
                  /\ pc' = "done"
                  /\ UNCHANGED consoleError
             ELSE /\ outcome' = NoOutcome
                  /\ pc' = "create"
                  /\ consoleError' = "override"

\* Innertube.create()
DownloadCreate(ok) ==
  /\ prog = "download"
  /\ UNCHANGED transcribeLocals
  /\ pc = "create"
  /\ net' = Append(net, NetCall("innertube.create", "", <<>>, <<>>, <<>>))
  /\ IF ok THEN pc' = "stream" /\ UNCHANGED <<outcome, consoleError>>
           ELSE DownloadCatch(MsgFetchFailed)
  /\ UNCHANGED <<pageLocals, prog, url, requestJson, videoId, routeLocals, scriptLocals, markdownContent,
                 fsOps, files, downloadedBytes>>

\* innertube.download(videoId, ...), mkdir of the directory, createWriteStream
DownloadStream(ok, mk) ==
  /\ prog = "download"
  /\ UNCHANGED transcribeLocals
  /\ pc = "stream"
  /\ net' = Append(net, NetCall("innertube.download", "", <<>>, <<>>, <<>>))
  /\ LET outputDir == YoutubePath(videoId, "")
         audioPath == YoutubePath(videoId, "audio.mp3")
     IN IF ~ok
          THEN DownloadCatch(MsgFetchFailed) /\ UNCHANGED <<fsOps, files>>
          ELSE IF mk # "ok"
            THEN /\ fsOps' = Append(fsOps, FsOp("mkdir", outputDir, mk))
                 /\ UNCHANGED files
                 /\ DownloadCatch(MsgNoSpace)
            ELSE /\ fsOps' = fsOps \o <<FsOp("mkdir", outputDir, mk),
                                        FsOp("createWriteStream", audioPath, "ok")>>
                 /\ files' = WriteFile(files, audioPath, <<>>)
                 /\ pc' = "read"
                 /\ UNCHANGED <<outcome, consoleError>>
  /\ UNCHANGED <<pageLocals, prog, url, requestJson, videoId, routeLocals, scriptLocals, markdownContent,
                 downloadedBytes>>

FileContent(fs, path) == (CHOOSE f \in fs : f.path = path).content

\* one iteration of the read loop; after the last one, fileStream.end()
DownloadRead(r) ==
  /\ prog = "download"
  /\ UNCHANGED transcribeLocals
  /\ pc = "read"
  /\ r = "chunk" => downloadedBytes < MaxChunks * ChunkLength
  /\ LET audioPath == YoutubePath(videoId, "audio.mp3")
     IN CASE r = "throw" ->
               /\ DownloadCatch(MsgFetchFailed)
               /\ UNCHANGED <<downloadedBytes, fsOps, files>>
          [] r = "done" ->
               /\ pc' = "finish"
               /\ UNCHANGED <<downloadedBytes, fsOps, files, outcome, consoleError>>
          [] r = "empty" ->
               UNCHANGED <<pc, downloadedBytes, fsOps, files, outcome, consoleError>>
          [] r = "chunk" ->
               /\ downloadedBytes' = downloadedBytes + ChunkLength
               /\ fsOps' = Append(fsOps, FsOp("write", audioPath, "ok"))
               /\ files' = WriteFile(files, audioPath,
                                     FileContent(files, audioPath) \o Rep("b", ChunkLength))
               /\ UNCHANGED <<pc, outcome, consoleError>>
  /\ UNCHANGED <<pageLocals, prog, url, requestJson, videoId, routeLocals, scriptLocals, markdownContent, net>>

\* JSON text of the metadata, reduced to the identifier and the byte count
MetadataContent(id, bytes) ==
  <<"{", "v", "i", "d", "e", "o", "_", "i", "d", ":">> \o id
    \o <<",", "f", "i", "l", "e", "_", "s", "i", "z", "e", "_", "b", "y", "t", "e", "s", ":">>
    \o toString(bytes) \o <<"}">>

\* the 'finish' or 'error' event of the file stream, then the metadata file
DownloadFinish(finished, wr) ==
  /\ prog = "download"
  /\ UNCHANGED transcribeLocals
  /\ pc = "finish"
  /\ LET metadataPath == YoutubePath(videoId, "metadata.json")
     IN IF ~finished
          THEN DownloadCatch(MsgNoSpace) /\ UNCHANGED <<fsOps, files>>
          ELSE /\ fsOps' = Append(fsOps, FsOp("writeFile", metadataPath, wr))
               /\ files' = IF wr = "ok"
                             THEN WriteFile(files, metadataPath,
                                            Utf8Encode(MetadataContent(videoId,
                                                                       downloadedBytes)))
                           ELSE IF wr = "failTruncated"
                             THEN WriteFile(files, metadataPath, <<>>)
                           ELSE files
               /\ IF wr = "ok"
                    THEN /\ consoleError' = "original"
                         /\ outcome' = Resolved
                         /\ pc' = "done"
                    ELSE DownloadCatch(MsgNoSpace)
  /\ UNCHANGED <<pageLocals, prog, url, requestJson, videoId, routeLocals, scriptLocals, markdownContent,
                 net, downloadedBytes>>

\* ------------------------------------------------------------------------
\* Transcription script: transcribeAudio and the main execution
\* ------------------------------------------------------------------------
AudioFiles == {YoutubePath(Id1, "audio.mp3")}

\* what the OAuth2 flow of getAccessToken can end in
TokenResults == {"ok", "timeout"}

\* JSON.stringify of a payload, reduced to its keys and the sizes of its lists
StringifyBody(b) ==
  IF ~b.hasResults THEN <<"{", "}">>
  ELSE <<"{", "r", "e", "s", "u", "l", "t", "s", ":", "{">>
         \o join([i \in 1..Len(b.entries) |->
                    b.entries[i].key \o <<":", "{">>
                      \o (IF b.entries[i].hasTranscript
                            THEN <<"t", ":">> \o toString(Len(b.entries[i].results))
                            ELSE <<>>)
                      \o (IF b.entries[i].hasInline
                            THEN <<"i", ":">> \o toString(Len(b.entries[i].inlineResults))
                            ELSE <<>>)
                      \o <<"}">>], <<",">>)
         \o <<"}", "}">>

\* JSON.stringify(operation), reduced in the same way
StringifyOperation(op) ==
  <<"{", "d", "o", "n", "e", ":", "t", "r", "u", "e">>
    \o (IF op.hasResponse
          THEN <<",", "r", "e", "s", "p", "o", "n", "s", "e", ":">>
                 \o StringifyBody(op.response)
          ELSE <<>>)
    \o (IF op.hasResult
          THEN <<",", "r", "e", "s", "u", "l", "t", ":">> \o StringifyBody(op.result)
          ELSE <<>>)
    \o (IF op.own.hasResults THEN <<",">> \o StringifyBody(op.own) ELSE <<>>)
    \o <<"}">>

\* JSON.stringify(result), reduced to the segment count and the transcript
StringifyResult(segs, text) ==
  <<"{", "s", "e", "g", "m", "e", "n", "t", "s", ":">> \o toString(Len(segs))
    \o <<",", "f", "u", "l", "l", "_", "t", "r", "a", "n", "s", "c", "r", "i", "p", "t", ":">>
    \o text \o <<"}">>

\* an entry of the timeline of the run: timer waits, heartbeats, status
\* fetches, the start of result extraction
Event(kind, n) == [kind |-> kind, n |-> n, ms |-> 0]

PollIntervalMs == 5000
\* setTimeout(resolve, 5000) of poll n
Wait(n) == [kind |-> "wait", n |-> n, ms |-> PollIntervalMs]

\* the .catch of the main execution
TranscribeThrow(msg) ==
  /\ outcome' = Rejected(msg)
  /\ pc' = "done"

SpeechError ==
  MsgSpeechErrorPrefix \o toString(400) \o <<" ">> \o StatusText400 \o <<"\n">>
    \o MsgUpstreamDenied

\* project id, access token, fs.stat and the choice between the two paths
TranscribeStart(file, projectId, token, statOk, size) ==
  /\ CanStart
  /\ prog' = "transcribe"
  /\ audioFile' = file
  /\ UNCHANGED <<pageLocals, url, requestJson, videoId, routeLocals, scriptLocals,
                 markdownContent, fsOps, files, downloadLocals, audioUri, audioContent, pollCount, done,
                 apiResponse, response_data, segments, fullTranscript, events>>
  /\ IF ~projectId
       THEN TranscribeThrow(MsgProjectNotSet) /\ UNCHANGED <<net, fileSize>>
     ELSE IF token # "ok"
       THEN TranscribeThrow(MsgAuthTimeout) /\ UNCHANGED <<net, fileSize>>
     ELSE /\ net' = Append(net, NetCall("oauth.token", "", <<>>, <<>>, <<>>))
          /\ IF ~statOk
               THEN TranscribeThrow(MsgNoSuchFile) /\ UNCHANGED fileSize
               ELSE /\ fileSize' = size
                    /\ pc' = IF UseObjectStorage(size) THEN "upload" ELSE "inline"
                    /\ outcome' = NoOutcome

\* uploadToGCS: bucket check, bucket creation on 404, readFile, upload
TranscribeUpload(check, createOk, readOk, uploadOk) ==
  /\ prog = "transcribe"
  /\ pc = "upload"
  /\ LET checkCall == NetCall("storage.bucket", "", <<>>, <<>>, <<>>)
         createCall == NetCall("storage.createBucket", "", <<>>, <<>>, <<>>)
         uploadCall == NetCall("storage.upload", "", <<>>, <<>>, <<>>)
         created == IF check = 404 THEN <<checkCall, createCall>> ELSE <<checkCall>>
     IN IF check = 404 /\ ~createOk
          THEN /\ net' = net \o created
               /\ TranscribeThrow(MsgCreateBucketPrefix \o MsgUpstreamDenied)
               /\ UNCHANGED audioUri
        ELSE IF ~readOk
          THEN /\ net' = net \o created
               /\ TranscribeThrow(MsgNoSuchFile)
               /\ UNCHANGED audioUri
        ELSE IF ~uploadOk
          THEN /\ net' = net \o created \o <<uploadCall>>
               /\ TranscribeThrow(MsgUploadPrefix \o MsgUpstreamDenied)
               /\ UNCHANGED audioUri
        ELSE /\ net' = net \o created \o <<uploadCall>>
             /\ audioUri' = GcsUri
             /\ pc' = "submit"
             /\ UNCHANGED outcome
  /\ UNCHANGED <<pageLocals, prog, url, requestJson, videoId, routeLocals, scriptLocals, markdownContent,
                 fsOps, files, downloadLocals, audioFile, fileSize, audioContent,
                 pollCount, done, apiResponse, response_data, segments, fullTranscript,
                 events>>

SubmitResults == {"rejected", "notOk", "ok"}

\* the batchRecognize request; on success the polling loop is entered
TranscribeSubmit(r) ==
  /\ prog = "transcribe"
  /\ pc = "submit"
  /\ net' = Append(net, NetCall("speech.batchRecognize", "", <<>>, audioUri, <<>>))
  /\ IF r = "rejected" THEN TranscribeThrow(MsgFetchFailed) /\ UNCHANGED <<done, pollCount>>
     ELSE IF r = "notOk" THEN TranscribeThrow(SpeechError) /\ UNCHANGED <<done, pollCount>>
     ELSE /\ done' = FALSE
          /\ pollCount' = 0
          /\ pc' = "poll"
          /\ UNCHANGED outcome
  /\ UNCHANGED <<pageLocals, prog, url, requestJson, videoId, routeLocals, scriptLocals, markdownContent,
                 fsOps, files, downloadLocals, audioFile, fileSize, audioUri, audioContent,
                 apiResponse, response_data, segments, fullTranscript, events>>

HeartbeatEvery == 4

\* variant: the heartbeat is logged on every poll
HeartbeatDue_always(n) == TRUE

\* pollCount % 4 === 0
HeartbeatDue(n) == n % HeartbeatEvery = 0

\* variant: a status without a done field ends the loop
OperationDone_unlessFalse(op) == op.done # "false"

\* done = operation.done, as the loop condition reads it
OperationDone(op) == op.done = "true"

\* one iteration of the polling loop: wait, count, heartbeat, status fetch
\* with its result op; when done, the debug dump (result wr) and the choice
\* of apiResponse
TranscribePoll(op, wr) ==
  /\ prog = "transcribe"
  /\ pc = "poll"
  /\ pollCount < MaxPolls
  /\ pollCount' = pollCount + 1
  /\ events' = events \o <<Wait(pollCount')>>
                 \o (IF HeartbeatDue(pollCount') THEN <<Event("heartbeat", pollCount')>>
                                                 ELSE <<>>)
                 \o <<Event("statusFetch", pollCount')>>
  /\ net' = Append(net, NetCall("speech.operation", "", <<>>, <<>>, <<>>))
  /\ LET debugPath == YoutubePath(Id3, "debug-operation.json")
     IN IF op.rejected
          THEN /\ TranscribeThrow(MsgFetchFailed)
               /\ UNCHANGED <<done, apiResponse, fsOps, files>>
        ELSE IF ~op.json
          THEN /\ TranscribeThrow(MsgBadJson)
               /\ UNCHANGED <<done, apiResponse, fsOps, files>>
        ELSE /\ done' = OperationDone(op)
             /\ IF ~done'
                  THEN UNCHANGED <<pc, outcome, apiResponse, fsOps, files>>
                  ELSE /\ fsOps' = Append(fsOps, FsOp("writeFile", debugPath, wr))
                       /\ files' = IF wr = "ok"
                                     THEN WriteFile(files, debugPath,
                                                    Utf8Encode(StringifyOperation(op)))
                                   ELSE IF wr = "failTruncated"
                                     THEN WriteFile(files, debugPath, <<>>)
                                   ELSE files
                       /\ IF wr # "ok"
                            THEN TranscribeThrow(MsgNoSpace) /\ UNCHANGED apiResponse
                            ELSE /\ apiResponse' = SelectApiResponse(op)
                                 /\ pc' = "extract"
                                 /\ UNCHANGED outcome
  /\ UNCHANGED <<pageLocals, prog, url, requestJson, videoId, routeLocals, scriptLocals, markdownContent,
                 downloadLocals, audioFile, fileSize, audioUri, audioContent,
                 response_data, segments, fullTranscript>>

\* what the recognize request can bring
InlineResponses ==
  { [rejected |-> TRUE, ok |-> FALSE, json |-> FALSE, body |-> NoResultsBody],
    [rejected |-> FALSE, ok |-> FALSE, json |-> TRUE, body |-> NoResultsBody],
    [rejected |-> FALSE, ok |-> TRUE, json |-> FALSE, body |-> NoResultsBody],
    [rejected |-> FALSE, ok |-> TRUE, json |-> TRUE, body |-> NoResultsBody] }
    \cup {[rejected |-> FALSE, ok |-> TRUE, json |-> TRUE, body |-> InlineBody(l)] :
            l \in ResultLists}

\* readFile of the audio and the recognize request with its response
TranscribeInline(readOk, resp) ==
  /\ prog = "transcribe"
  /\ pc = "inline"
  /\ IF ~readOk
       THEN /\ TranscribeThrow(MsgNoSuchFile)
            /\ UNCHANGED <<net, audioContent, apiResponse>>
       ELSE /\ audioContent' = TRUE
            /\ net' = Append(net, NetCall("speech.recognize", "", <<>>, <<>>, <<>>))
            /\ IF resp.rejected THEN TranscribeThrow(MsgFetchFailed) /\ UNCHANGED apiResponse
               ELSE IF ~resp.ok THEN TranscribeThrow(SpeechError) /\ UNCHANGED apiResponse
               ELSE IF ~resp.json THEN TranscribeThrow(MsgBadJson) /\ UNCHANGED apiResponse
               ELSE /\ apiResponse' = resp.body
                    /\ pc' = "extract"
                    /\ UNCHANGED outcome
  /\ UNCHANGED <<pageLocals, prog, url, requestJson, videoId, routeLocals, scriptLocals, markdownContent,
                 fsOps, files, downloadLocals, audioFile, fileSize, audioUri, pollCount,
                 done, response_data, segments, fullTranscript, events>>

\* response_data, the segments, the total duration and the returned result;
\* for a batch response of no known shape, the dump (result wr) and the error
TranscribeExtract(wr) ==
  /\ prog = "transcribe"
  /\ pc = "extract"
  /\ events' = Append(events, Event("extract", pollCount))
  /\ LET debugPath == YoutubePath(Id3, "debug-api-response.json")
         m == IF audioUri # <<>> THEN BatchResults(apiResponse, audioUri)
              ELSE Match("inline", IF apiResponse.hasResults THEN apiResponse.list
                                                            ELSE <<>>)
     IN IF ~m.matched
          THEN /\ fsOps' = Append(fsOps, FsOp("writeFile", debugPath, wr))
               /\ files' = IF wr = "ok"
                             THEN WriteFile(files, debugPath,
                                            Utf8Encode(StringifyBody(apiResponse)))
                           ELSE IF wr = "failTruncated"
                             THEN WriteFile(files, debugPath, <<>>)
                           ELSE files
               /\ TranscribeThrow(IF wr = "ok" THEN MsgCouldNotParse ELSE MsgNoSpace)
               /\ UNCHANGED <<response_data, segments, fullTranscript, totalDuration>>
          ELSE /\ response_data' = m.results
               /\ segments' = SegmentsFrom(response_data', ToSeconds(0))
               /\ fullTranscript' = trim(FullTranscript(response_data'))
               /\ totalDuration' = IF Len(segments') > 0 THEN segments'[Len(segments')].end
                                   ELSE ToSeconds(0)
               /\ pc' = "save"
               /\ UNCHANGED <<fsOps, files, outcome>>
  /\ UNCHANGED <<pageLocals, prog, url, requestJson, videoId, routeLocals, rawTranscript,
                 transcriptSegments, fullTranscriptText, outputPath, markdownContent, net,
                 downloadLocals, audioFile, fileSize, audioUri, audioContent, pollCount,
                 done, apiResponse>>

\* the .then of the main execution: the result is written next to the audio
TranscribeSave(wr) ==
  /\ prog = "transcribe"
  /\ pc = "save"
  /\ LET outputFile == [audioFile EXCEPT !.name = OutputFileName(audioFile.name)]
     IN /\ fsOps' = Append(fsOps, FsOp("writeFile", outputFile, wr))
        /\ files' = IF wr = "ok"
                      THEN WriteFile(files, outputFile,
                                     Utf8Encode(StringifyResult(segments, fullTranscript)))
                    ELSE IF wr = "failTruncated" THEN WriteFile(files, outputFile, <<>>)
                    ELSE files
        /\ IF wr = "ok" THEN outcome' = Resolved /\ pc' = "done"
                        ELSE TranscribeThrow(MsgNoSpace)
  /\ UNCHANGED <<pageLocals, prog, url, requestJson, videoId, routeLocals, scriptLocals, markdownContent,
                 net, downloadLocals, transcribeLocals>>

\* ------------------------------------------------------------------------
\* The page: YouTubeTranscriptPage and its handleSubmit
\* ------------------------------------------------------------------------
MaxInFlight == 2

\* 'Step 1/4: Downloading video...'
StatusStep1 ==
  <<"S","t","e","p"," ","1","/","4",":"," ","D","o","w","n","l","o","a","d",
    "i","n","g"," ","v","i","d","e","o",".",".",".">>

\* 'Step 2/4: Extracting audio...'
StatusStep2 ==
  <<"S","t","e","p"," ","2","/","4",":"," ","E","x","t","r","a","c","t","i",
    "n","g"," ","a","u","d","i","o",".",".",".">>

\* 'Failed to process video'
MsgFailedToProcessVideo ==
  <<"F","a","i","l","e","d"," ","t","o"," ","p","r","o","c","e","s","s"," ",
    "v","i","d","e","o">>

\* 'An error occurred'
MsgAnErrorOccurred ==
  <<"A","n"," ","e","r","r","o","r"," ","o","c","c","u","r","r","e","d">>

\* 'Cannot read properties of null'
MsgNullProperty ==
  <<"C","a","n","n","o","t"," ","r","e","a","d"," ","p","r","o","p","e","r",
    "t","i","e","s"," ","o","f"," ","n","u","l","l">>

\* '/transcript.md'
TranscriptFileSuffix ==
  <<"/","t","r","a","n","s","c","r","i","p","t",".","m","d">>

\* 'youtube/'
YoutubeDirPrefix ==
  <<"y","o","u","t","u","b","e","/">>

\* 'queued'
StatusQueued ==
  <<"q","u","e","u","e","d">>

\* the check mark and ' Complete!'
StatusComplete ==
  <<"\\u2705"," ","C","o","m","p","l","e","t","e","!">>

\* what the user may type into the input
PageInputs == {<<>>, <<" ">>, WatchUrl(Id1), ShortUrl(Id2), Id2, NotAUrl, ShortIdUrl}

\* the settled fetch of /api/youtube/transcript: rejected, or a response
\* with ok, and what response.json() yields: a rejection (json = FALSE),
\* null, or an object with its error, status, videoId and outputPath
PageAnswer(rejected, ok, json, isNull, hasErr, err, hasStatus, st, id) ==
  [rejected |-> rejected, ok |-> ok, json |-> json, isNull |-> isNull,
   hasError |-> hasErr, errorText |-> err, hasStatus |-> hasStatus, statusText |-> st,
   videoId |-> id,
   outputPath |-> IF id = <<>> THEN <<>>
                  ELSE YoutubeDirPrefix \o id \o TranscriptFileSuffix]

\* the answers of the route: { error } with a failure status, or the
\* success object
RouteAnswers ==
  {PageAnswer(FALSE, FALSE, TRUE, FALSE, TRUE, m, FALSE, <<>>, <<>>) :
     m \in {MsgUrlRequired, MsgInvalidUrlFormat, MsgFailedToProcess}}
    \cup {PageAnswer(FALSE, TRUE, TRUE, FALSE, FALSE, <<>>, FALSE, <<>>, id) :
            id \in {Id1, Id2}}

\* answers that do not come from the route: no connection, a body that is
\* not JSON, null, an object without error, an empty error, an object that
\* carries a status
OtherAnswers ==
  { PageAnswer(TRUE, FALSE, FALSE, FALSE, FALSE, <<>>, FALSE, <<>>, <<>>),
    PageAnswer(FALSE, FALSE, FALSE, FALSE, FALSE, <<>>, FALSE, <<>>, <<>>),
    PageAnswer(FALSE, FALSE, TRUE, TRUE, FALSE, <<>>, FALSE, <<>>, <<>>),
    PageAnswer(FALSE, FALSE, TRUE, FALSE, FALSE, <<>>, FALSE, <<>>, <<>>),
    PageAnswer(FALSE, FALSE, TRUE, FALSE, TRUE, <<>>, FALSE, <<>>, <<>>),
    PageAnswer(FALSE, TRUE, FALSE, FALSE, FALSE, <<>>, FALSE, <<>>, <<>>),
    PageAnswer(FALSE, TRUE, TRUE, TRUE, FALSE, <<>>, FALSE, <<>>, <<>>),
    PageAnswer(FALSE, TRUE, TRUE, FALSE, FALSE, <<>>, TRUE, StatusQueued, Id1) }

PageAnswers == RouteAnswers \cup OtherAnswers

\* no answer yet
Pending == PageAnswer(FALSE, FALSE, FALSE, FALSE, FALSE, <<>>, FALSE, <<>>, <<>>)

RemoveAt(seq, i) == SubSeq(seq, 1, i - 1) \o SubSeq(seq, i + 1, Len(seq))

\* variant: the button is never disabled
SubmitEnabled_always == TRUE

\* disabled={isProcessing || !youtubeUrl.trim()} of the submit button
SubmitEnabled == ~isProcessing /\ trim(youtubeUrl) # <<>>

\* disabled={isProcessing} of the input
InputEnabled == ~isProcessing

\* onChange of the input
PageType(text) ==
  /\ InputEnabled
  /\ youtubeUrl' = text
  /\ UNCHANGED <<isProcessing, status, error, result, requests>>
  /\ UNCHANGED <<prog, pc, url, requestJson, videoId, routeLocals, scriptLocals,
                 markdownContent, net, fsOps, files, outcome, downloadLocals,
                 transcribeLocals>>

\* onSubmit of the form: handleSubmit up to its fetch
PageSubmit ==
  /\ SubmitEnabled
  /\ Len(requests) < MaxInFlight
  /\ isProcessing' = TRUE
  /\ error' = <<>>
  /\ status' = StatusStep1
  /\ result' = NoResult
  /\ requests' = Append(requests, [phase |-> "fetch", url |-> youtubeUrl, answer |-> Pending])
  /\ UNCHANGED youtubeUrl
  /\ UNCHANGED <<prog, pc, url, requestJson, videoId, routeLocals, scriptLocals,
                 markdownContent, net, fsOps, files, outcome, downloadLocals,
                 transcribeLocals>>

\* the catch block and the finally block of handleSubmit, for call i
PageCatch(i, msg) ==
  /\ error' = IF msg = <<>> THEN MsgAnErrorOccurred ELSE msg
  /\ status' = <<>>
  /\ isProcessing' = FALSE
  /\ requests' = RemoveAt(requests, i)
  /\ UNCHANGED result

\* the fetch of call i settles with answer a; handleSubmit runs up to its
\* next await, the response.json() of either branch
PageFetchSettles(i, a) ==
  /\ i \in 1..Len(requests)
  /\ requests[i].phase = "fetch"
  /\ IF a.rejected THEN PageCatch(i, MsgFetchFailed)
     ELSE /\ requests' = [requests EXCEPT ![i] = [phase |-> "body", url |-> @.url,
                                                  answer |-> a]]
          /\ status' = IF a.ok THEN StatusStep2 ELSE status
          /\ UNCHANGED <<isProcessing, error, result>>
  /\ UNCHANGED youtubeUrl
  /\ UNCHANGED <<prog, pc, url, requestJson, videoId, routeLocals, scriptLocals,
                 markdownContent, net, fsOps, files, outcome, downloadLocals,
                 transcribeLocals>>

\* response.json() of call i settles; handleSubmit runs to its end. The
\* state updates between two awaits are rendered together, so of the three
\* setStatus calls of the success branch the last one is seen
PageBodyRead(i) ==
  /\ i \in 1..Len(requests)
  /\ requests[i].phase = "body"
  /\ LET a == requests[i].answer
     IN IF ~a.json THEN PageCatch(i, MsgBadJson)
        ELSE IF a.isNull THEN PageCatch(i, MsgNullProperty)
        ELSE IF ~a.ok
          THEN PageCatch(i, IF a.hasError /\ a.errorText # <<>> THEN a.errorText
                            ELSE MsgFailedToProcessVideo)
        ELSE /\ result' = [isNull |-> FALSE, videoId |-> a.videoId,
                           outputPath |-> a.outputPath]
             /\ status' = StatusComplete
             /\ isProcessing' = FALSE
             /\ requests' = RemoveAt(requests, i)
             /\ UNCHANGED error
  /\ UNCHANGED youtubeUrl
  /\ UNCHANGED <<prog, pc, url, requestJson, videoId, routeLocals, scriptLocals,
                 markdownContent, net, fsOps, files, outcome, downloadLocals,
                 transcribeLocals>>

\* ------------------------------------------------------------------------
\* Specifications
\* ------------------------------------------------------------------------
OutputPaths == {NoPath, CustomPath}

\* the pipeline: one run of one of the four programs
Next ==
  \/ \E bodyOk \in BOOLEAN, u \in Inputs, apiKey \in BOOLEAN : RoutePost(bodyOk, u, apiKey)
  \/ \E r \in FetchOutcomes : RouteTryLanguage(r)
  \/ \E resp \in GeminiHttpResponses : RouteFormat(resp)
  \/ \E mk \in FsResults, wr \in WriteResults : RouteSave(mk, wr)
  \/ \E u \in Inputs, out \in OutputPaths, apiKey \in BOOLEAN : ScriptStart(u, out, apiKey)
  \/ \E r \in FetchOutcomes : ScriptFetch(r)
  \/ ScriptNormalize
  \/ \E resp \in SdkResponses : ScriptFormat(resp)
  \/ \E mk \in FsResults, wr \in WriteResults : ScriptSave(mk, wr)
  \/ \E u \in Inputs : DownloadStart(u)
  \/ \E ok \in BOOLEAN : DownloadCreate(ok)
  \/ \E ok \in BOOLEAN, mk \in FsResults : DownloadStream(ok, mk)
  \/ \E r \in ReadResults : DownloadRead(r)
  \/ \E finished \in BOOLEAN, wr \in WriteResults : DownloadFinish(finished, wr)
  \/ \E file \in AudioFiles, projectId \in BOOLEAN, token \in TokenResults,
        statOk \in BOOLEAN, size \in FileSizes :
          TranscribeStart(file, projectId, token, statOk, size)
  \/ \E check \in {200, 404}, createOk \in BOOLEAN, readOk \in BOOLEAN,
        uploadOk \in BOOLEAN : TranscribeUpload(check, createOk, readOk, uploadOk)
  \/ \E r \in SubmitResults : TranscribeSubmit(r)
  \/ \E op \in PollOutcomes, wr \in WriteResults : TranscribePoll(op, wr)
  \/ \E readOk \in BOOLEAN, resp \in InlineResponses : TranscribeInline(readOk, resp)
  \/ \E wr \in WriteResults : TranscribeExtract(wr)
  \/ \E wr \in WriteResults : TranscribeSave(wr)

Spec == Init /\ [][Next]_vars

\* the resolvers alone: the input is drawn at the start, each program resolves it
InitResolver ==
  /\ prog = "none"
  /\ pc = "idle"
  /\ url \in ResolverInputs
  /\ requestJson = TRUE
  /\ videoId = NoId
  /\ langIdx = 1
  /\ transcriptText = <<>>
  /\ lastError = NullError
  /\ rawTranscript = <<>>
  /\ transcriptSegments = <<>>
  /\ totalDuration = ToSeconds(0)
  /\ fullTranscriptText = <<>>
  /\ markdownContent = <<>>
  /\ outputPath = NoPath
  /\ net = <<>>
  /\ fsOps = <<>>
  /\ files = {}
  /\ outcome = NoOutcome
  /\ consoleError = "original"
  /\ downloadedBytes = 0
  /\ TranscribeIdle
  /\ PageIdle

NextResolver ==
  \/ RoutePost(TRUE, url, TRUE)
  \/ ScriptStart(url, NoPath, TRUE)
  \/ DownloadStart(url)

SpecResolver == InitResolver /\ [][NextResolver]_vars

\* the normalizer alone, on one segment that starts at a whole second
InitTimestamp ==
  /\ prog = "script"
  /\ pc = "normalize"
  /\ url = Id1
  /\ requestJson = TRUE
  /\ videoId = Id1
  /\ langIdx = 1
  /\ transcriptText = <<>>
  /\ lastError = NullError
  /\ \E t \in 0..MaxSeconds : rawTranscript = <<Seg(<<"a">>, 1000 * t, 0)>>
  /\ transcriptSegments = <<>>
  /\ totalDuration = ToSeconds(0)
  /\ fullTranscriptText = <<>>
  /\ markdownContent = <<>>
  /\ outputPath = NoPath
  /\ net = <<CaptionCall("default")>>
  /\ fsOps = <<>>
  /\ files = {}
  /\ outcome = NoOutcome
  /\ consoleError = "original"
  /\ downloadedBytes = 0
  /\ TranscribeIdle
  /\ PageIdle

NextTimestamp == ScriptNormalize

SpecTimestamp == InitTimestamp /\ [][NextTimestamp]_vars

\* ------------------------------------------------------------------------
\* The formatter prompt on transcripts around the limit of 200,000
\* characters: the caption fetch has returned one segment of that length
\* ------------------------------------------------------------------------
\* "[00:00] ", which the script puts in front of the text of the segment
LinePrefixLength == Len(TranscriptLine(NormalizeSegment(Seg(<<>>, 0, 0))))

PromptLengths ==
  {60, PromptLimit - LinePrefixLength - 1, PromptLimit - LinePrefixLength,
   PromptLimit - LinePrefixLength + 1, PromptLimit - 1, PromptLimit, PromptLimit + 1,
   PromptLimit + 40}

\* a caption text of n code units: the block, if n leaves room for it, then
\* "a" and "b" in turn, and "z" at the end
LongText(n) ==
  LET m == IF n > FillerWidth THEN n - FillerWidth ELSE n
      tail == [i \in 1..m |-> IF i = m THEN "z" ELSE IF i % 2 = 1 THEN "a" ELSE "b"]
  IN IF n > FillerWidth THEN <<FillerBlock>> \o tail ELSE tail

InitPrompt ==
  /\ prog \in {"route", "script"}
  /\ pc = IF prog = "route" THEN "format" ELSE "normalize"
  /\ url = Id1
  /\ requestJson = TRUE
  /\ videoId = Id1
  /\ langIdx = 1
  /\ lastError = NullError
  /\ \E n \in PromptLengths :
       /\ rawTranscript = <<Seg(LongText(n), 0, 1000)>>
       /\ transcriptText = IF prog = "route" THEN LongText(n) ELSE <<>>
  /\ transcriptSegments = <<>>
  /\ totalDuration = ToSeconds(0)
  /\ fullTranscriptText = <<>>
  /\ markdownContent = <<>>
  /\ outputPath = NoPath
  /\ net = <<CaptionCall(IF prog = "route" THEN languageCodes[1] ELSE "default")>>
  /\ fsOps = <<>>
  /\ files = {}
  /\ outcome = NoOutcome
  /\ consoleError = "original"
  /\ downloadedBytes = 0
  /\ TranscribeIdle
  /\ PageIdle

NextPrompt ==
  \/ \E resp \in GeminiHttpResponses : RouteFormat(resp)
  \/ ScriptNormalize
  \/ \E resp \in SdkResponses : ScriptFormat(resp)

SpecPrompt == InitPrompt /\ [][NextPrompt]_vars

\* ------------------------------------------------------------------------
\* The page on its own: the user types and submits, the fetches settle
\* ------------------------------------------------------------------------
\* the page as first rendered; none of the four programs runs
InitPage == Init /\ files = {}

NextPage ==
  \/ \E text \in PageInputs : PageType(text)
  \/ PageSubmit
  \/ \E i \in 1..MaxInFlight, a \in PageAnswers : PageFetchSettles(i, a)
  \/ \E i \in 1..MaxInFlight : PageBodyRead(i)

SpecPage == InitPage /\ [][NextPage]_vars

\* ------------------------------------------------------------------------
\* Properties: the caption fetcher of the HTTP route
\* ------------------------------------------------------------------------
\* the language labels of the caption fetches issued so far, in order
CaptionLangs(calls) ==
  LET cs == SelectSeq(calls, LAMBDA c : c.service = "captions")
  IN [i \in 1..Len(cs) |-> cs[i].lang]

FormatterCalls(calls) == SelectSeq(calls, LAMBDA c : c.service = "formatter")

\* the segment texts joined with single spaces
JoinedText(segs) == join([i \in 1..Len(segs) |-> segs[i].text], <<" ">>)

\* the en attempt threw and the en-US attempt is about to be made
EnThrew ==
  /\ prog = "route" /\ pc = "languages" /\ langIdx = 2
  /\ rawTranscript = <<>> /\ lastError.message \in LibraryErrors

\* C1 as stated: after en threw, an en-US result that is non-empty and whose
\* space-joined text has at least 50 characters is accepted and used, and
\* en-GB and the default candidate are not fetched.
C1_AsStated ==
  [][ (EnThrew /\ rawTranscript' # <<>> /\ Len(JoinedText(rawTranscript')) >= 50)
        => /\ pc' = "format"
           /\ transcriptText' = JoinedText(rawTranscript')
           /\ CaptionLangs(net') = <<"en", "en-US">> ]_vars

\* C1 (amended): the caption fetches are issued in the order en, en-US, en-GB,
\* default, each at most once; once the loop has been left no caption fetch is
\* issued and the text is not reassigned; the formatter receives that text; and
\* after en threw, an en-US result that is non-empty and whose space-joined
\* text has at least 50 characters after trimming is accepted and used, with
\* no fetch for en-GB or for the default candidate.
C1_FallbackOrder ==
  [][ /\ prog' = "route" =>
           /\ CaptionLangs(net') =
                SubSeq(<<"en", "en-US", "en-GB", "default">>, 1, Len(CaptionLangs(net')))
           /\ \A i \in 1..Len(FormatterCalls(net')) :
                FormatterCalls(net')[i].text = transcriptText'
      /\ (prog = "route" /\ pc # "languages" /\ pc # "idle") =>
           /\ CaptionLangs(net') = CaptionLangs(net)
           /\ transcriptText' = transcriptText
      /\ (EnThrew /\ rawTranscript' # <<>>
            /\ Len(trim(JoinedText(rawTranscript'))) >= 50)
           => /\ pc' = "format"
              /\ transcriptText' = JoinedText(rawTranscript')
              /\ CaptionLangs(net') = <<"en", "en-US">> ]_vars

\* en threw, en-US was accepted, nothing else was fetched
C1_Witness ==
  /\ prog = "route" /\ pc = "format" /\ langIdx = 2
  /\ lastError.message \in LibraryErrors
  /\ CaptionLangs(net) = <<"en", "en-US">>
  /\ Len(trim(transcriptText)) >= 50

\* the result of the latest fetch is no usable transcript
CandidateFailed(segs) == segs = <<>> \/ Len(trim(JoinedText(segs))) < 50

FetcherFailed ==
  /\ outcome.kind = "response" /\ outcome.status = 500
  /\ StartsAt(outcome.message, 1, MsgFailedToFetchPrefix)

\* C2: the caption fetcher fails exactly when all four candidates have failed;
\* a failure of one of the first three candidates (throw, empty list, too
\* short text) leaves the request running and moves on to the next candidate;
\* when the fourth candidate fails too, the error raised embeds the error text
\* of that fourth (default) candidate.
C2_FailsOnlyWhenExhausted ==
  [][ /\ prog' = "route" =>
           (FetcherFailed' <=>
              (Len(CaptionLangs(net')) = 4 /\ CandidateFailed(rawTranscript')
                 /\ pc' = "done" /\ outcome'.status = 500 /\ net' # <<>>
                 /\ Len(FormatterCalls(net')) = 0))
      /\ (prog = "route" /\ pc = "languages" /\ langIdx < 4
            /\ CandidateFailed(rawTranscript'))
           => /\ pc' = "languages" /\ langIdx' = langIdx + 1
              /\ outcome' = NoOutcome
      /\ (prog = "route" /\ pc = "languages" /\ langIdx = 4
            /\ CandidateFailed(rawTranscript'))
           => /\ pc' = "done"
              /\ outcome' = ErrorResponse(500, MsgFailedToFetchPrefix \o lastError'.message)
              /\ rawTranscript' # <<>> => lastError'.message = MsgTranscriptTooShort
              /\ rawTranscript' = <<>> =>
                   lastError'.message \in LibraryErrors \cup {MsgTranscriptEmpty} ]_vars

\* all four candidates failed, the last one with a too short text
C2_Witness ==
  /\ prog = "route" /\ pc = "done" /\ FetcherFailed
  /\ CaptionLangs(net) = <<"en", "en-US", "en-GB", "default">>
  /\ rawTranscript # <<>>
  /\ outcome.message = MsgFailedToFetchPrefix \o MsgTranscriptTooShort

\* C3 as stated: a candidate is accepted exactly when its segment list is
\* non-empty and the space-joined text is longer than 50 characters.
C3_AsStated ==
  [][ (prog = "route" /\ pc = "languages")
        => ((pc' = "format") <=>
              (rawTranscript' # <<>> /\ Len(JoinedText(rawTranscript')) > 50)) ]_vars

\* C3 (amended): a candidate is accepted exactly when its segment list is
\* non-empty and the space-joined text, trimmed, has at least 50 characters
\* (exactly 50 is accepted); a rejected candidate is followed by the next one.
C3_AcceptedFromFifty ==
  [][ (prog = "route" /\ pc = "languages")
        => /\ (pc' = "format") <=>
                (rawTranscript' # <<>> /\ Len(trim(JoinedText(rawTranscript'))) >= 50)
           /\ (pc' # "format" /\ langIdx < 4)
                => (pc' = "languages" /\ langIdx' = langIdx + 1) ]_vars

\* a candidate of exactly 50 characters has been accepted
C3_Witness ==
  /\ prog = "route" /\ pc = "format"
  /\ Len(transcriptText) = 50 /\ Len(trim(transcriptText)) = 50

\* ------------------------------------------------------------------------
\* Properties: the resolvers
\* ------------------------------------------------------------------------
\* 'https://www.youtube.com/watch?v='
C4_WatchPrefix ==
  <<"h","t","t","p","s",":","/","/","w","w","w",".","y","o","u","t","u","b",
    "e",".","c","o","m","/","w","a","t","c","h","?","v","=">>

\* 'https://youtu.be/'
C4_ShortPrefix ==
  <<"h","t","t","p","s",":","/","/","y","o","u","t","u",".","b","e","/">>

\* 'https://www.youtube.com/embed/'
C4_EmbedPrefix ==
  <<"h","t","t","p","s",":","/","/","w","w","w",".","y","o","u","t","u","b",
    "e",".","c","o","m","/","e","m","b","e","d","/">>

\* the run is one of the three programs that resolve a URL, past its resolver
ResolverRan == pc # "idle" /\ requestJson /\ prog # "transcribe"

\* C4: for an 11-character identifier ID, each of the inputs
\* https://www.youtube.com/watch?v=ID, https://youtu.be/ID,
\* https://www.youtube.com/embed/ID and ID itself resolves to exactly ID, in
\* the route, the script and the download script.
C4_ValidFormsResolve ==
  \A id \in VideoIds :
    (ResolverRan /\ url \in {C4_WatchPrefix \o id, C4_ShortPrefix \o id,
                           C4_EmbedPrefix \o id, id})
      => /\ Len(id) = 11
         /\ videoId = id
         /\ pc # "done"

\* the download script resolved an embed URL whose identifier has _ and -
C4_Witness ==
  /\ prog = "download" /\ pc = "create"
  /\ url = C4_EmbedPrefix \o Id2 /\ videoId = Id2

\* C5 as stated: every identifier a resolver returns is 11 characters long.
C5_AsStated == (ResolverRan /\ videoId # NoId) => Len(videoId) = 11

\* the three URL markers do not occur in u
C6_NoMarker(u) ==
  /\ ~includes(u, SubSeq(C4_WatchPrefix, 13, Len(C4_WatchPrefix)))
  /\ ~includes(u, SubSeq(C4_ShortPrefix, 9, Len(C4_ShortPrefix)))
  /\ ~includes(u, SubSeq(C4_EmbedPrefix, 13, Len(C4_EmbedPrefix)))

\* u is empty, or is neither a URL of one of the three forms nor a bare
\* 11-character identifier
C6_Malformed(u) ==
  \/ u = <<>>
  \/ C6_NoMarker(u) /\ ~(Len(u) = 11 /\ \A i \in 1..Len(u) : u[i] \in IdChars)

InvalidIdentifierFailure ==
  \/ /\ prog = "route" /\ outcome.kind = "response" /\ outcome.status = 400
     /\ outcome.message \in {MsgUrlRequired, MsgInvalidUrlFormat}
  \/ /\ prog = "script" /\ outcome.kind = "rejected"
     /\ outcome.message = MsgInvalidUrlFormatPrefix \o url
  \/ /\ prog = "download" /\ outcome.kind = "rejected"
     /\ outcome.message = MsgInvalidIdPrefix \o url

C7_ExampleText ==
  <<"[","0",":","0","0","]"," ","a","\n","[","0",":","0","1","]"," ","b">>

Normalized == prog = "script" /\ pc \in {"format", "save", "done"} /\ transcriptSegments # <<>>

\* C7: the total duration is offset + duration of the last segment, in
\* seconds, whatever the other segments are; for (0, 1000), (1000, 1000) it is
\* 2 seconds and the timestamps are 0:00 and 0:01.
C7_TotalFromLastSegment ==
  Normalized =>
    LET last == rawTranscript[Len(rawTranscript)]
    IN /\ 1000 * totalDuration.whole + totalDuration.milli = last.offset + last.duration
       /\ totalDuration.milli \in 0..999
       /\ ( /\ Len(rawTranscript) = 2
            /\ rawTranscript[1] = Seg(<<"a">>, 0, 1000)
            /\ rawTranscript[2] = Seg(<<"b">>, 1000, 1000) )
            => /\ totalDuration = [whole |-> 2, milli |-> 0]
               /\ fullTranscriptText = C7_ExampleText

\* the last segment does not end last
C7_Witness ==
  /\ Normalized /\ Len(rawTranscript) = 2
  /\ rawTranscript[1].offset + rawTranscript[1].duration
       > rawTranscript[2].offset + rawTranscript[2].duration
  /\ 1000 * totalDuration.whole + totalDuration.milli
       = rawTranscript[2].offset + rawTranscript[2].duration

C8_TwoDigits(n) == <<Digit[(n \div 10) + 1], Digit[(n % 10) + 1]>>
C8_Leading(n) == IF n < 10 THEN <<Digit[n + 1]>> ELSE C8_TwoDigits(n)

\* M:SS below one hour, H:MM:SS from one hour on
C8_Expected(t) ==
  IF t < 3600
    THEN C8_Leading((t % 3600) \div 60) \o <<":">> \o C8_TwoDigits(t % 60)
    ELSE C8_Leading(t \div 3600) \o <<":">> \o C8_TwoDigits((t % 3600) \div 60)
           \o <<":">> \o C8_TwoDigits(t % 60)

\* C8: for a whole number of seconds t, formatTimestamp gives M:SS below 3600
\* and H:MM:SS from 3600 on, the leading unit unpadded and the others on two
\* digits; 45 gives 0:45, 125 gives 2:05, 3725 gives 1:02:05. Both
\* implementations.
C8_TimestampFormat ==
  (prog = "script" /\ pc = "format" /\ Len(rawTranscript) = 1
     /\ rawTranscript[1].offset % 1000 = 0)
    => LET t == rawTranscript[1].offset \div 1000
           stamp == SubSeq(fullTranscriptText, 2,
                           Len(fullTranscriptText) - Len(rawTranscript[1].text) - 2)
       IN /\ fullTranscriptText = <<"[">> \o stamp \o <<"]", " ">> \o rawTranscript[1].text
          /\ stamp = C8_Expected(t)
          /\ formatTimestampRoute([whole |-> t, milli |-> 0]) = C8_Expected(t)
          /\ t = 45 => stamp = <<"0", ":", "4", "5">>
          /\ t = 125 => stamp = <<"2", ":", "0", "5">>
          /\ t = 3725 => stamp = <<"1", ":", "0", "2", ":", "0", "5">>

\* 3725 seconds have been formatted
C8_Witness ==
  /\ prog = "script" /\ pc = "format" /\ Len(rawTranscript) = 1
  /\ rawTranscript[1].offset = 3725000
  /\ fullTranscriptText = <<"[", "1", ":", "0", "2", ":", "0", "5", "]", " ", "a">>

\* an element of the fetched sequence lacks its offset or its duration
C9_Malformed(segs) ==
  {i \in 1..Len(segs) : "offset" \notin segs[i].has \/ "duration" \notin segs[i].has}

\* the run stopped with the error that names the first such element; no
\* formatter call, no file-system call
C9_StoppedAtFirst(segs) ==
  /\ pc = "done" /\ ~outcome.success
  /\ StartsAt(outcome.message, 1,
              MsgInvalidSegmentPrefix \o toString(SetMin(C9_Malformed(segs)) - 1) \o <<":">>)
  /\ FormatterCalls(net) = <<>>
  /\ fsOps = <<>>
  /\ files \in InitialFiles

\* C9 as stated: in the script and in the route, a fetched sequence with an
\* element that lacks offset or duration stops the run with the
\* malformed-segment error.
C9_AsStated ==
  (prog \in {"script", "route"} /\ pc \notin {"idle", "fetch", "normalize", "languages"}
     /\ C9_Malformed(rawTranscript) # {})
    => C9_StoppedAtFirst(rawTranscript)

\* C9 (amended): in the standalone script, a fetched sequence with an element
\* that lacks offset or duration stops the run with the malformed-segment error
\* that names the index of the first such element; nothing is normalized, the
\* formatter is not called and no file is written. (The route reads only the
\* text of the segments.)
C9_ScriptStopsAtMalformed ==
  (prog = "script" /\ pc \notin {"idle", "fetch", "normalize"}
     /\ C9_Malformed(rawTranscript) # {})
    => /\ C9_StoppedAtFirst(rawTranscript)
       /\ outcome.kind = "rejected"
       /\ transcriptSegments = <<>>

\* the second of two elements lacks a field
C9_Witness ==
  /\ prog = "script" /\ pc = "done" /\ Len(rawTranscript) = 2
  /\ C9_Malformed(rawTranscript) = {2}
  /\ StartsAt(outcome.message, 1, MsgInvalidSegmentPrefix \o <<"1", ":">>)

\* ------------------------------------------------------------------------
\* Properties: the formatter output
\* ------------------------------------------------------------------------
ShortMarkdownFailure ==
  /\ pc = "done" /\ ~outcome.success
  /\ outcome.message = MsgShortMarkdown
  /\ prog = "route" => (outcome.kind = "response" /\ outcome.status = 500)
  /\ prog = "script" => outcome.kind = "rejected"

\* C10: in the route and in the script, formatter output whose trimmed length
\* is below 100 is rejected with an error and nothing is written; trimmed
\* length 100 or more passes the check.
C10_ShortMarkdownRejected ==
  [][ (prog' \in {"route", "script"}) =>
        /\ markdownContent' # <<>> =>
             /\ Head(markdownContent') \notin Whitespace
             /\ markdownContent'[Len(markdownContent')] \notin Whitespace
        /\ (pc = "format" /\ markdownContent' # markdownContent) =>
             /\ Len(markdownContent') >= 100 =>
                  (pc' = "save" /\ outcome' = NoOutcome)
             /\ Len(markdownContent') < 100 => ShortMarkdownFailure'
        /\ ShortMarkdownFailure' =>
             /\ Len(markdownContent') < 100
             /\ fsOps' = <<>> /\ files' \in InitialFiles
        /\ (pc' = "save" \/ fsOps' # <<>>) => Len(markdownContent') >= 100 ]_vars

\* an output of 99 characters has been rejected by the route
C10_Witness ==
  /\ prog = "route" /\ ShortMarkdownFailure
  /\ Len(markdownContent) = 99 /\ fsOps = <<>>

\* ------------------------------------------------------------------------
\* Properties: the transcript file of the caption path
\* ------------------------------------------------------------------------
CaptionPath == prog \in {"route", "script"}

\* positions of the writeFile calls in a list of file-system calls
WriteOps(ops) == {i \in 1..Len(ops) : ops[i].op = "writeFile"}

FilesAt(path) == {f \in files : f.path = path}

WellFormed(s) == \A i \in 1..Len(s) : ~Unpaired(s, i)

\* writeFile is called at most once, and only in a run whose resolver,
\* caption fetch, formatter call and length check have succeeded
C11_WriteOnceAfterSuccess ==
  CaptionPath =>
    /\ Cardinality(WriteOps(fsOps)) <= 1
    /\ \A i \in WriteOps(fsOps) :
         /\ videoId # NoId
         /\ \E k \in 1..Len(net) : net[k].service = "captions"
         /\ \E k \in 1..Len(net) : net[k].service = "formatter"
         /\ prog = "route" => ~TranscriptUnusable(transcriptText)
         /\ prog = "script" => transcriptSegments # <<>>
         /\ Len(markdownContent) >= 100
         /\ markdownContent = trim(markdownContent)
         /\ i = Len(fsOps)

\* C11 as stated: the file read back after a successful write is identical
\* to the markdown handed to the writer
C11_AsStated ==
  /\ C11_WriteOnceAfterSuccess
  /\ CaptionPath =>
       \A i \in WriteOps(fsOps) :
         fsOps[i].result = "ok" =>
           FilesAt(fsOps[i].path) = {[path |-> fsOps[i].path, content |-> markdownContent]}

\* C11 (amended): on the caption path the transcript file is written at most
\* once per run and only after resolver, caption fetch, formatter call and
\* length check; a successful write leaves exactly one file at the path,
\* holding the UTF-8 encoding of the accepted markdown, which reads back
\* identical to the markdown when it has no unpaired surrogate
C11_WriteOnceEncoded ==
  /\ C11_WriteOnceAfterSuccess
  /\ CaptionPath =>
       \A i \in WriteOps(fsOps) :
         fsOps[i].result = "ok" =>
           /\ FilesAt(fsOps[i].path) =
                {[path |-> fsOps[i].path, content |-> Utf8Encode(markdownContent)]}
           /\ WellFormed(markdownContent) =>
                FilesAt(fsOps[i].path) =
                  {[path |-> fsOps[i].path, content |-> markdownContent]}

\* a route run for the identifier of the earlier transcript has written its
\* own markdown to the file
C11_Witness ==
  /\ prog = "route" /\ videoId = Id2 /\ outcome = SuccessResponse
  /\ markdownContent = Rep("#", 100)
  /\ files = {[path |-> YoutubePath(Id2, "transcript.md"), content |-> Rep("#", 100)]}

\* ------------------------------------------------------------------------
\* Properties: the responses of the HTTP route
\* ------------------------------------------------------------------------
\* the request carried a JSON body whose url is missing or is rejected by
\* the resolver
ValidationFailure == requestJson /\ (url = <<>> \/ extractVideoId(url) = NoId)

\* C16: the route answers every request with exactly one JSON response: none
\* before the handler returns; 400 with an error text exactly for a missing
\* or rejected url; 500 with an error text for every other failure, those
\* of caption fetch, formatting, length check and file write included; and
\* a success body only when the transcript file has been written
C16_OneResponsePerRequest ==
  prog = "route" =>
    IF pc # "done" THEN outcome = NoOutcome
    ELSE /\ outcome.kind = "response"
         /\ outcome.status \in {200, 400, 500}
         /\ outcome.status = 400 <=> ValidationFailure
         /\ outcome.status = 200 <=> outcome.success
         /\ ~outcome.success => outcome.message # <<>>
         /\ (net # <<>> \/ fsOps # <<>>) /\ ~outcome.success => outcome.status = 500
         /\ outcome.success =>
              /\ WriteOps(fsOps) # {}
              /\ \A i \in WriteOps(fsOps) :
                   fsOps[i].result = "ok" /\ FilesAt(fsOps[i].path) # {}
         /\ (\E i \in 1..Len(fsOps) : fsOps[i].result # "ok") => outcome.status = 500

\* the file write failed after every earlier step succeeded, and the route
\* answered 500
C16_Witness ==
  /\ prog = "route" /\ pc = "done"
  /\ outcome.status = 500 /\ outcome.message = MsgNoSpace
  /\ \E i \in WriteOps(fsOps) : fsOps[i].result = "fail"

\* ------------------------------------------------------------------------
\* Properties: the text taken from the formatter response
\* ------------------------------------------------------------------------
\* the parts of a candidate that carry text
TextParts(cand) == {j \in 1..Len(cand) : cand[j].hasText /\ cand[j].text # <<>>}

\* the candidates of a list that carry text
TextCandidates(cands) == {i \in 1..Len(cands) : TextParts(cands[i]) # {}}

\* the response went through the status, JSON and error checks and holds a
\* non-empty list of candidates
HasCandidateList(resp) ==
  /\ ~resp.rejected /\ resp.ok /\ resp.body.json /\ ~resp.body.hasError
  /\ resp.body.hasCandidates /\ Len(resp.body.candidates) > 0

\* C20 as stated: the route uses the text of the first candidate that
\* carries text, and fails with the empty-response error only when no
\* candidate carries text
C20_AsStated ==
  [][ \A resp \in GeminiHttpResponses :
        (RouteFormat(resp) /\ HasCandidateList(resp)) =>
          LET cands == resp.body.candidates
              withText == TextCandidates(cands)
          IN IF withText = {}
               THEN outcome'.message = MsgNoTextResponse
               ELSE LET cand == cands[SetMin(withText)]
                    IN /\ outcome'.message # MsgNoTextResponse
                       /\ markdownContent' = trim(cand[SetMin(TextParts(cand))].text) ]_vars

\* ------------------------------------------------------------------------
\* Properties: what a failed run leaves behind
\* ------------------------------------------------------------------------
\* the run has ended in failure
RunFailed == pc = "done" /\ ~outcome.success

\* every file-system call of the run has succeeded
NoFsFailure == \A i \in 1..Len(fsOps) : fsOps[i].result = "ok"

\* C12 as stated: a run of any of the programs that ends in failure has
\* created or modified no file; taken here for the runs in which no
\* file-system call failed, so that what is left behind is what the
\* program wrote and not the remains of a failed write
C12_AsStated == (RunFailed /\ NoFsFailure) => files \in InitialFiles

\* ------------------------------------------------------------------------
\* Properties: inline submission or object storage
\* ------------------------------------------------------------------------
\* the run has sent a request to the named service
Called(service) == \E k \in 1..Len(net) : net[k].service = service

Uploaded == Called("storage.bucket") \/ Called("storage.createBucket")
              \/ Called("storage.upload") \/ Called("speech.batchRecognize")

\* the run is past the submission and the receipt of its results
ResultsReceived == pc \in {"extract", "save"} \/ (pc = "done" /\ outcome.success)

\* C13: the transcription client chooses between inline submission and
\* object storage from the file size alone and before any request to the
\* storage or speech service: up to and including 10 * 1024 * 1024 bytes
\* the audio is sent inline and never uploaded, from one byte more it is
\* uploaded and submitted by reference and never sent inline, and no run
\* takes both paths
C13_SizeDecidesPath ==
  prog = "transcribe" =>
    /\ pc \in {"upload", "inline"} =>
         (~Uploaded /\ ~Called("speech.recognize") /\ ~audioContent /\ audioUri = <<>>)
    /\ pc \in {"upload", "submit", "poll"} => fileSize > 10485760
    /\ pc = "inline" => fileSize <= 10485760
    /\ (Uploaded \/ audioUri # <<>> \/ Called("speech.operation")) =>
         (fileSize >= 10485761 /\ ~Called("speech.recognize") /\ ~audioContent)
    /\ (Called("speech.recognize") \/ audioContent) =>
         (fileSize <= 10485760 /\ ~Uploaded /\ audioUri = <<>>)
    /\ ResultsReceived =>
         IF fileSize <= 10485760
           THEN Called("speech.recognize") /\ ~Uploaded
           ELSE Called("storage.upload") /\ Called("speech.batchRecognize")
                  /\ ~Called("speech.recognize")

\* a file of exactly 10 MB has been recognized inline
C13_Witness ==
  /\ prog = "transcribe" /\ fileSize = 10485760
  /\ Called("speech.recognize") /\ ~Uploaded /\ pc = "save"

\* ------------------------------------------------------------------------
\* Properties: the timeline of the speech segments
\* ------------------------------------------------------------------------
\* the two results of the example: end offsets "3.500s" and "7.0s"
C14_Example ==
  << RecognizerResult(TRUE, <<"h", "i">>, 90, StringOffset(<<"3", ".", "5", "0", "0", "s">>)),
     RecognizerResult(TRUE, <<"y", "o">>, 80, StringOffset(<<"7", ".", "0", "s">>)) >>

\* the results that carry an alternative
WithAlternative(results) == {i \in 1..Len(results) : results[i].hasAlternative}

\* C14: one speech segment is derived per result that has an alternative;
\* the first starts at 0 and every later one starts where the segment
\* before it ends, whatever the end offsets are; for the end offsets
\* "3.500s" and "7.0s" the segments are (0, 3.5) and (3.5, 7.0)
C14_GaplessTimeline ==
  (prog = "transcribe" /\ pc \in {"save", "done"}) =>
    /\ Len(segments) = Cardinality(WithAlternative(response_data))
    /\ segments # <<>> => segments[1].start = [whole |-> 0, milli |-> 0]
    /\ \A i \in 2..Len(segments) : segments[i].start = segments[i - 1].end
    /\ (ResultsReceived /\ response_data = C14_Example) =>
         /\ Len(segments) = 2
         /\ segments[1].start = [whole |-> 0, milli |-> 0]
         /\ segments[1].end = [whole |-> 3, milli |-> 500]
         /\ segments[2].start = [whole |-> 3, milli |-> 500]
         /\ segments[2].end = [whole |-> 7, milli |-> 0]

\* the example has gone through the extraction
C14_Witness ==
  /\ prog = "transcribe" /\ pc = "save"
  /\ response_data = C14_Example /\ Len(segments) = 2

\* milliseconds of a number of seconds
Millis(x) == 1000 * x.whole + x.milli

\* C15 as stated: whatever results are received, every speech segment has
\* start <= end and the ends do not decrease along the sequence
C15_AsStated ==
  prog = "transcribe" =>
    /\ \A i \in 1..Len(segments) : Millis(segments[i].start) <= Millis(segments[i].end)
    /\ \A i \in 2..Len(segments) : Millis(segments[i - 1].end) <= Millis(segments[i].end)

\* ------------------------------------------------------------------------
\* Properties: the polling loop
\* ------------------------------------------------------------------------
\* positions of the events of one kind
EventsOf(kind) == {j \in 1..Len(events) : events[j].kind = kind}

\* the status fetch at position j follows the wait of the same poll, with
\* at most the heartbeat of that poll in between
AfterItsWait(j) ==
  LET n == events[j].n
      wait == [kind |-> "wait", n |-> n, ms |-> 5000]
  IN \/ j > 1 /\ events[j - 1] = wait
     \/ j > 2 /\ events[j - 1] = Event("heartbeat", n) /\ events[j - 2] = wait

\* the timeline of a transcription run, in one state
PollingTimeline ==
  /\ pollCount > 0 => (audioUri # <<>> /\ Called("speech.batchRecognize"))
  /\ Cardinality(EventsOf("statusFetch")) = pollCount
  /\ Cardinality(EventsOf("wait")) = pollCount
  /\ Cardinality({k \in 1..Len(net) : net[k].service = "speech.operation"}) = pollCount
  /\ \A j \in EventsOf("statusFetch") :
       /\ AfterItsWait(j)
       /\ events[j].n = Cardinality({i \in EventsOf("statusFetch") : i <= j})
  /\ \A n \in 1..pollCount :
       Cardinality({j \in EventsOf("heartbeat") : events[j].n = n})
         = IF n % 4 = 0 THEN 1 ELSE 0
  /\ \A j \in EventsOf("heartbeat") : events[j].n \in 1..pollCount
  /\ pc = "poll" => ~done
  /\ (audioUri # <<>> /\ pc \in {"extract", "save"}) => done
  /\ \A j \in EventsOf("extract") :
       audioUri # <<>> =>
         /\ done
         /\ j = Len(events)
         /\ j > 1 /\ events[j - 1] = Event("statusFetch", pollCount)

\* C17: on the object-storage path every status fetch follows a wait of
\* 5 seconds of its own, the polls are counted from 1, a heartbeat is logged on exactly
\* the polls whose number is a multiple of 4, no status fetch is issued
\* once a poll has reported done, and result extraction starts only after
\* that poll
C17_PollingCycle ==
  [][ (prog' = "transcribe") =>
        /\ PollingTimeline'
        /\ done => (pollCount' = pollCount /\ net' = net
                      /\ EventsOf("statusFetch")' = EventsOf("statusFetch")) ]_vars

\* the eighth poll has reported done, after heartbeats on polls 4 and 8
C17_Witness ==
  /\ prog = "transcribe" /\ pc = "extract" /\ done /\ pollCount = 8
  /\ Cardinality(EventsOf("heartbeat")) = 2

\* the status fetch brought a JSON body that does not report done = true
NotDoneBody(op) == ~op.rejected /\ op.json /\ op.done # "true"

\* C18 as stated: a run in which no status response has reported done is
\* still polling: it has reached neither failure nor success
C18_AsStated ==
  (prog = "transcribe" /\ pollCount > 0 /\ ~done) => (pc = "poll" /\ outcome = NoOutcome)

\* C18 (amended): the polling loop has no retry limit or deadline: a status
\* body that does not report done = true, an error payload without a done
\* field included, always leads to one more poll, at every poll count, and
\* the loop is left only by a poll that reports done or by a status fetch
\* that rejects or whose body is not JSON, which ends the run in failure
C18_PollsWithoutLimit ==
  [][ (prog = "transcribe" /\ pc = "poll") =>
        /\ \A op \in PollOutcomes, wr \in WriteResults :
             TranscribePoll(op, wr) =>
               /\ NotDoneBody(op) =>
                    (pc' = "poll" /\ outcome' = NoOutcome /\ ~done'
                      /\ pollCount' = pollCount + 1)
               /\ (op.rejected \/ ~op.json) => (pc' = "done" /\ ~outcome'.success /\ ~done')
               /\ (~op.rejected /\ op.json /\ op.done = "true") => done'
        /\ pc' = "done" => ~outcome'.success ]_vars

\* the poll count has reached the bound of the model and the run is still
\* polling, after error payloads only
C18_Witness ==
  /\ prog = "transcribe" /\ pc = "poll" /\ pollCount = MaxPolls
  /\ ~done /\ outcome = NoOutcome

\* the entry of the results object under the given key, if there is one
EntriesUnder(uri) ==
  {i \in 1..Len(apiResponse.entries) : apiResponse.entries[i].key = uri}

DebugApiResponse == YoutubePath(Id3, "debug-api-response.json")

\* C19: on the object-storage path the results come from the first shape
\* that matches, in this order: the direct transcript of the entry keyed by
\* the storage URI, the direct transcript of the first entry of the results
\* object, the transcript wrapped in inlineResult of that first entry; the
\* run fails with the unparseable-response error only when none matches,
\* and then the raw payload is in debug-api-response.json
C19_ShapeOrder ==
  (prog = "transcribe" /\ audioUri # <<>> /\ EventsOf("extract") # {}) =>
    LET entries == apiResponse.entries
        keyed == EntriesUnder(audioUri)
        unparseable == pc = "done" /\ outcome.message = MsgCouldNotParse
    IN /\ IF \E i \in keyed : entries[i].hasTranscript
            THEN /\ \E i \in keyed : response_data = entries[i].results
                 /\ ~unparseable
          ELSE IF entries # <<>> /\ entries[1].hasTranscript
            THEN response_data = entries[1].results /\ ~unparseable
          ELSE IF entries # <<>> /\ entries[1].hasInline
            THEN response_data = entries[1].inlineResults /\ ~unparseable
          ELSE /\ pc = "done" /\ ~outcome.success
               /\ outcome.message \in {MsgCouldNotParse, MsgNoSpace}
       /\ unparseable =>
            FilesAt(DebugApiResponse) =
              {[path |-> DebugApiResponse,
                content |-> Utf8Encode(StringifyBody(apiResponse))]}

\* the first entry is not keyed by the storage URI and carries both a
\* direct and a wrapped transcript: the direct one was taken
C19_Witness ==
  /\ prog = "transcribe" /\ pc = "save" /\ audioUri = GcsUri
  /\ EntriesUnder(audioUri) = {}
  /\ apiResponse.entries[1].hasTranscript /\ apiResponse.entries[1].hasInline
  /\ response_data = ListB

\* ------------------------------------------------------------------------
\* Properties: formatter errors and the prompt
\* ------------------------------------------------------------------------
\* the response is a non-success answer of the formatter service
NotOkAnswer(resp) == ~resp.rejected /\ ~resp.ok

\* the upstream error message of the response, <<>> when it has none
UpstreamMessage(resp) ==
  IF resp.body.json /\ resp.body.hasError /\ resp.body.errorHasMessage
    THEN resp.body.errorMessage
  ELSE <<>>

\* the upstream error message holds one of the two capacity phrases
CapacityPhrase(resp) ==
  \/ includes(UpstreamMessage(resp), PhraseTokenCount)
  \/ includes(UpstreamMessage(resp), PhraseMaxTokens)

\* what the claim counts as the generic upstream error of a response
GenericUpstreamErrors(resp) ==
  (IF UpstreamMessage(resp) # <<>> THEN {UpstreamMessage(resp)} ELSE {})
    \cup {JsonErrorNoMessage,
          MsgGeminiFailedPrefix \o toString(resp.status) \o <<" ">>
            \o StatusText(resp.status)}

\* C21 as stated: a non-success answer whose upstream message holds a
\* capacity phrase is surfaced as the content-too-large error; every other
\* non-success answer is surfaced as the upstream message, the serialized
\* error object or the status line, never as the content-too-large error
C21_AsStated ==
  [][ \A resp \in GeminiHttpResponses :
        (RouteFormat(resp) /\ NotOkAnswer(resp)) =>
          /\ pc' = "done" /\ outcome'.status = 500
          /\ IF CapacityPhrase(resp)
               THEN outcome'.message = MsgVideoTooLong
               ELSE /\ outcome'.message \in GenericUpstreamErrors(resp)
                    /\ outcome'.message # MsgVideoTooLong ]_vars

\* the formatter requests of the run
FormatterRequests == {k \in 1..Len(net) : net[k].service = "formatter"}

\* the number of code units of a text
CodeUnits(text) ==
  Len(text) + Cardinality({i \in 1..Len(text) : text[i] = FillerBlock}) * (200000 - 101)

\* the text the program has assembled from the captions
AssembledText == IF prog = "route" THEN transcriptText ELSE fullTranscriptText

\* C22: the transcript inside the formatter prompt is the first 200,000
\* characters of the assembled text, the whole text when it is not longer;
\* the continuation marker follows it exactly when the assembled text is
\* longer than 200,000 characters, so a text of exactly 200,000 characters
\* is passed whole and without marker
C22_PromptTruncation ==
  \A k \in FormatterRequests :
    LET text == AssembledText
        sent == net[k].text
    IN /\ CodeUnits(sent) = (IF CodeUnits(text) > 200000 THEN 200000 ELSE CodeUnits(text))
       /\ sent \o SubSeq(text, Len(sent) + 1, Len(text)) = text
       /\ CodeUnits(text) > 200000 <=>
            net[k].marker = <<"\n","[",".",".","."," ","t","r","a","n","s","c","r","i","p",
                              "t"," ","c","o","n","t","i","n","u","e","s"," ",".",".",".",
                              "]">>
       /\ CodeUnits(text) <= 200000 => (sent = text /\ net[k].marker = <<>>)

\* the route has sent a transcript of exactly 200,000 characters
C22_Witness ==
  /\ prog = "route" /\ CodeUnits(transcriptText) = 200000
  /\ \E k \in FormatterRequests : net[k].text = transcriptText /\ net[k].marker = <<>>

\* ------------------------------------------------------------------------
\* Properties: the override of console.error in the download script
\* ------------------------------------------------------------------------
\* the positions of downloadVideo inside its try block
InsideTry == {"create", "stream", "read", "finish"}

\* C23: console.error is the override exactly while downloadVideo is inside
\* its try block; when the call has ended, by returning or by failing at
\* client creation, stream open, directory creation, a chunk read, the end
\* of the file or the metadata write, console.error is the original handler
C23_OverrideUndone ==
  /\ (prog = "download" /\ pc \in InsideTry) => consoleError = "override"
  /\ (prog = "download" /\ pc = "done") => consoleError = "original"
  /\ prog # "download" => consoleError = "original"

\* the call has failed at a chunk read after a chunk was written
C23_Witness ==
  /\ prog = "download" /\ pc = "done" /\ ~outcome.success
  /\ downloadedBytes > 0 /\ \E k \in 1..Len(fsOps) : fsOps[k].op = "write"
  /\ consoleError = "original"

\* ------------------------------------------------------------------------
\* Properties: the transcript text across the fallback loop of the route
\* ------------------------------------------------------------------------
\* C24: in the route the text sent to the formatter is the joined text of
\* the candidate fetched last, and that candidate passed the acceptance
\* check; a text left in transcriptText by a rejected candidate is never
\* sent: the run ends in failure without a formatter request
C24_OnlyAcceptedTextSent ==
  prog = "route" =>
    /\ (pc \in {"format", "save"} \/ FormatterRequests # {}) =>
         /\ rawTranscript # <<>>
         /\ transcriptText = JoinedText(rawTranscript)
         /\ Len(trim(transcriptText)) >= 50
    /\ \A k \in FormatterRequests :
         /\ net[k].text = transcriptText
         /\ k > 1 /\ net[k - 1].service = "captions"
    /\ (pc = "done" /\ Len(trim(transcriptText)) < 50) =>
         (FormatterRequests = {} /\ ~outcome.success)

\* a candidate left a short text behind, the candidates after it threw, and
\* the request has failed without a formatter request
C24_Witness ==
  /\ prog = "route" /\ pc = "done" /\ outcome.status = 500
  /\ transcriptText # <<>> /\ rawTranscript = <<>>
  /\ langIdx > Len(languageCodes)
  /\ FormatterRequests = {}

\* ------------------------------------------------------------------------
\* Properties: the submit handler of the page
\* ------------------------------------------------------------------------
\* result is set, with the status of completion and no error
ResultShown ==
  /\ ~result.isNull
  /\ status = <<"\\u2705"," ","C","o","m","p","l","e","t","e","!">>
  /\ error = <<>>

\* error is set, with null result and empty status
ErrorShown == error # <<>> /\ result.isNull /\ status = <<>>

\* C25: isProcessing is true exactly while a call of handleSubmit has not
\* ended; when a call ends, either result is set, with the status of
\* completion and an empty error, or error is non-empty, with null result
\* and empty status, never both; and, the controls being disabled while
\* isProcessing is true, at most one request exists at any time
C25_SubmitHandlerStates ==
  [][ /\ isProcessing' <=> requests' # <<>>
      /\ Len(requests') <= 1
      /\ Len(requests') > Len(requests) => (isProcessing' /\ ~isProcessing)
      /\ Len(requests') < Len(requests) =>
           /\ ~isProcessing'
           /\ ResultShown' \/ ErrorShown'
           /\ ~(ResultShown' /\ ErrorShown')
           /\ ResultShown' <=>
                (requests[1].phase = "body" /\ requests[1].answer.ok
                   /\ requests[1].answer.json /\ ~requests[1].answer.isNull)
      /\ (~isProcessing /\ ~isProcessing') => UNCHANGED <<status, error, result>> ]_vars

\* the submission of a text that is no URL has ended with the error of the
\* route
C25_Witness ==
  /\ ~isProcessing /\ requests = <<>>
  /\ error = MsgInvalidUrlFormat /\ result.isNull /\ status = <<>>
  /\ youtubeUrl = NotAUrl
====
